---- MODULE Spec2Model ----
(***************************************************************************)
(* Model of fst::BitmapIndex (extensions/ngram/bitmap-index.{h,cc}): a     *)
(* rank/select index over a borrowed bit buffer.                           *)
(*                                                                         *)
(* Scaling.  The source works on 64-bit words, 512-bit blocks, 8-bit and   *)
(* 16-bit packed counts and 32-bit positions.  The model keeps the         *)
(* structure (8 words per block, select sample distance = block size, the  *)
(* packed 12-"byte" entry, every unsigned wrap-around) and scales the      *)
(* widths so that whole bit vectors, including lengths close to the        *)
(* largest supported one, can be enumerated:                               *)
(*      word      64 bits -> kStorageBitSize bits                          *)
(*      uint8_t   2^8     -> kUint8Mod   (3 words of ones fit, 4 do not)   *)
(*      uint16_t  2^16    -> kUint8Mod^2                                   *)
(*      uint32_t  2^32    -> kUint32Mod  (a multiple of the block size)    *)
(* size_t (64 bits) is never close to wrapping and is an unbounded Int.    *)
(***************************************************************************)
EXTENDS Integers, Sequences, FiniteSets, TLC

(***************************************************************************)
(* Program constants (bitmap-index.h), scaled as described above.          *)
(***************************************************************************)
kStorageLogBitSize == 2
kStorageBitSize == 4
kUnitsPerRankIndexEntry == 8
kBitsPerRankIndexEntry == kUnitsPerRankIndexEntry * kStorageBitSize
kStorageBlockMask == kStorageBitSize - 1
kBitsPerSelect0Block == 32
kBitsPerSelect1Block == 32
kMaxLinearSearchBlocks == 2
kUint8Mod == 16
kUint16Mod == kUint8Mod * kUint8Mod
kUint32Mod == 128

\* Conversions to the unsigned types (C++ modular conversion).
ToUint8(x) == x % kUint8Mod
ToUint16(x) == x % kUint16Mod
ToUint32(x) == x % kUint32Mod
\* size_t, scaled; wide enough that only a negative difference wraps
kSizeMod == 65536
ToSize(x) == x % kSizeMod
\* uint32_t -> int
ToInt32(x) == IF ToUint32(x) < kUint32Mod \div 2 THEN ToUint32(x) ELSE ToUint32(x) - kUint32Mod

Min(a, b) == IF a < b THEN a ELSE b

(***************************************************************************)
(* 64-bit word primitives.  A word is a number in 0 .. kWordMod - 1; bit i *)
(* of w is (w >> i) & 1.                                                   *)
(***************************************************************************)
kWordMod == 2 ^ kStorageBitSize
Words == 0 .. (kWordMod - 1)
BitPos == 0 .. (kStorageBitSize - 1)

WordBit(w, i) == (w \div (2 ^ i)) % 2

\* ~w on uint64_t
WordNot(w) == (kWordMod - 1) - w

\* a & b on uint64_t, bit by bit; tabulated once
BitwiseAnd(a, b) ==
  LET RECURSIVE go(_)
      go(i) == IF i = kStorageBitSize THEN 0
               ELSE WordBit(a, i) * WordBit(b, i) * (2 ^ i) + go(i + 1)
  IN go(0)
AndTable == [a \in Words |-> [b \in Words |-> BitwiseAnd(a, b)]]
WordAnd(a, b) == AndTable[a][b]

\* a | b on uint64_t
WordOr(a, b) == a + b - WordAnd(a, b)

\* kOne << i, for i < kStorageBitSize
kOne == 1
ShiftLeft(x, i) == (x * (2 ^ i)) % kWordMod

\* __builtin_popcountll(w), bit by bit; tabulated once
CountBits(w) ==
  LET RECURSIVE go(_)
      go(i) == IF i = kStorageBitSize THEN 0 ELSE WordBit(w, i) + go(i + 1)
  IN go(0)
PopcountTable == [w \in Words |-> CountBits(w)]
popcountll(w) == PopcountTable[w]

\* __builtin_ctzll(w), defined for w # 0
ctzll(w) == CHOOSE i \in BitPos : WordBit(w, i) = 1 /\ \A j \in 0 .. (i - 1) : WordBit(w, j) = 0

\* kLowBitsMasks[i] == (1 << i) - 1
kLowBitsMasks(i) == (2 ^ i) - 1

(***************************************************************************)
(* nth_bit(w, r): position of the r-th (0-based) set bit of w.  Requires   *)
(* r < popcount(w); outside the precondition the result is unspecified.    *)
(*                                                                         *)
(* Unspecified values.  Every operator that can run into an unspecified    *)
(* value takes a record ub: ub.nth is what nth_bit returns outside its     *)
(* precondition, ub.entry what a read outside rank_index_ yields, ub.word  *)
(* what a read outside the bit buffer yields, ub.pos what a read outside a *)
(* select table yields.  The actions choose ub nondeterministically.       *)
(***************************************************************************)
NthBitTable ==
  [w \in Words |->
     [r \in 0 .. (popcountll(w) - 1) |->
        CHOOSE i \in BitPos : WordBit(w, i) = 1 /\ popcountll(w % (2 ^ i)) = r]]
nth_bit(w, r, ub) == IF r < popcountll(w) THEN NthBitTable[w][r] ELSE ub.nth

\* The precondition of nth_bit(w, r).
NthBitPre(w, r) == r < popcountll(w)

(***************************************************************************)
(* RankIndexEntry (bitmap-index.h).  C++ index [a][b] of                   *)
(* relative_ones_counts_ is [a + 1][b + 1] here.                           *)
(***************************************************************************)
RankIndexEntry ==
  [absolute_ones_count_ |-> 0,
   relative_ones_count_4_ |-> 0,
   relative_ones_counts_ |-> << <<0, 0, 0>>, <<0, 0, 0>> >>]

absolute_ones_count(e) == e.absolute_ones_count_

relative_ones_count_1(e) == e.relative_ones_counts_[1][1]
relative_ones_count_2(e) == e.relative_ones_counts_[1][2]
relative_ones_count_3(e) == e.relative_ones_counts_[1][3]
relative_ones_count_4(e) == e.relative_ones_count_4_
relative_ones_count_5(e) == relative_ones_count_4(e) + e.relative_ones_counts_[2][1]
relative_ones_count_6(e) == relative_ones_count_4(e) + e.relative_ones_counts_[2][2]
relative_ones_count_7(e) == relative_ones_count_4(e) + e.relative_ones_counts_[2][3]

\* The 12 bytes of an entry in memory order (little-endian), as laid out by
\* the member declarations: absolute_ones_count_ (4), relative_ones_count_4_
\* (2), relative_ones_counts_[0][0..2], relative_ones_counts_[1][0..2].
EntryBytes(e) ==
  << e.absolute_ones_count_ % kUint8Mod,
     (e.absolute_ones_count_ \div kUint8Mod) % kUint8Mod,
     (e.absolute_ones_count_ \div (kUint8Mod ^ 2)) % kUint8Mod,
     (e.absolute_ones_count_ \div (kUint8Mod ^ 3)) % kUint8Mod,
     e.relative_ones_count_4_ % kUint8Mod,
     (e.relative_ones_count_4_ \div kUint8Mod) % kUint8Mod,
     e.relative_ones_counts_[1][1], e.relative_ones_counts_[1][2],
     e.relative_ones_counts_[1][3],
     e.relative_ones_counts_[2][1], e.relative_ones_counts_[2][2],
     e.relative_ones_counts_[2][3] >>

\* UnalignedLoad<uint32_t> of the four bytes at byte offset off (0-based).
UnalignedLoad(e, off) ==
  LET b == EntryBytes(e)
  IN b[off + 1] + kUint8Mod * b[off + 2] + (kUint8Mod ^ 2) * b[off + 3]
     + (kUint8Mod ^ 3) * b[off + 4]

\* Byte offset of relative_ones_counts_[r][0] inside the entry.
RelativeCountsOffset(r) == 6 + 3 * r

\* The general getter without the statement that clears the low byte.
RelativeOnesCountUncleared(e, k) ==
  LET c == IF k < 4 THEN 0 ELSE e.relative_ones_count_4_
      loaded == UnalignedLoad(e, RelativeCountsOffset(k \div 4) - 1)
  IN c + ((loaded \div (kUint8Mod ^ (k % 4))) % kUint8Mod)

\* relative_ones_count(k), k < 8: the popcount of the words before word k.
relative_ones_count(e, k) ==
  LET c == IF k < 4 THEN 0 ELSE e.relative_ones_count_4_
      loaded == UnalignedLoad(e, RelativeCountsOffset(k \div 4) - 1)
      \* relative_ones_counts_8x4 &= ~0xFF
      cleared == loaded - (loaded % kUint8Mod)
  IN c + ((cleared \div (kUint8Mod ^ (k % 4))) % kUint8Mod)

\* Setters: the entry after the store, with the store's truncation to the
\* width of the field.
set_absolute_ones_count(e, v) == [e EXCEPT !.absolute_ones_count_ = ToUint32(v)]

set_relative_ones_count_1(e, v) ==
  [e EXCEPT !.relative_ones_counts_[1][1] = ToUint8(v)]
set_relative_ones_count_2(e, v) ==
  [e EXCEPT !.relative_ones_counts_[1][2] = ToUint8(v)]
set_relative_ones_count_3(e, v) ==
  [e EXCEPT !.relative_ones_counts_[1][3] = ToUint8(v)]
\* The count of the first four words stored in one byte.
SetRelativeOnesCount4Byte(e, v) ==
  [e EXCEPT !.relative_ones_count_4_ = ToUint8(v)]
set_relative_ones_count_4(e, v) ==
  [e EXCEPT !.relative_ones_count_4_ = ToUint16(v)]
\* The setter storing v itself, not its excess over the count of the
\* first four words.
SetRelativeOnesCount5Raw(e, v) ==
  [e EXCEPT !.relative_ones_counts_[2][1] = ToUint8(v)]
set_relative_ones_count_5(e, v) ==
  [e EXCEPT !.relative_ones_counts_[2][1] = ToUint8(ToUint32(v - relative_ones_count_4(e)))]
set_relative_ones_count_6(e, v) ==
  [e EXCEPT !.relative_ones_counts_[2][2] = ToUint8(ToUint32(v - relative_ones_count_4(e)))]
set_relative_ones_count_7(e, v) ==
  [e EXCEPT !.relative_ones_counts_[2][3] = ToUint8(ToUint32(v - relative_ones_count_4(e)))]

\* The DFST_CHECKs of the setters (true when the assertion holds).
check_set_relative_ones_count(e, k, v) ==
  /\ v <= k * kStorageBitSize
  /\ (k = 4) => /\ e.relative_ones_counts_[2][1] = 0
                /\ e.relative_ones_counts_[2][2] = 0
                /\ e.relative_ones_counts_[2][3] = 0

(***************************************************************************)
(* std::vector operations used by the index.  A vector is a sequence;      *)
(* C++ index i is index i + 1 here.                                        *)
(***************************************************************************)
VecClear(v) == << >>
VecResize(v, n, value) == [i \in 1 .. n |-> IF i <= Len(v) THEN v[i] ELSE value]
VecPushBack(v, x) == Append(v, ToUint32(x))
VecAt(v, i) == v[i + 1]

(***************************************************************************)
(* Sizes (bitmap-index.h).                                                 *)
(***************************************************************************)
StorageSize(num_bits) == (num_bits + kStorageBlockMask) \div (2 ^ kStorageLogBitSize)

\* The block count rounded down instead of up.
RankIndexSizeFloor(num_bits) ==
  StorageSize(num_bits) \div kUnitsPerRankIndexEntry + 1

rank_index_size(num_bits) ==
  (StorageSize(num_bits) + kUnitsPerRankIndexEntry - 1) \div kUnitsPerRankIndexEntry + 1

(***************************************************************************)
(* BuildIndex (bitmap-index.cc).  buf is the caller's word array (C++      *)
(* word w is buf[w + 1]), self the object before the call.  The result is  *)
(* the object after the call plus dchk, which is TRUE when every           *)
(* DFST_CHECK executed by the call held.                                   *)
(***************************************************************************)

\* The eight words of the block as they lie in the buffer, past the end of
\* the vector included.
BlockWordsAsStored(buf, num_bits, word_index) ==
  [i \in 0 .. 7 |-> buf[word_index + i + 1]]

\* const uint64_t word[8] of the block starting at word_index (lines 260-269)
BlockWords(buf, num_bits, word_index) ==
  [i \in 0 .. 7 |->
     IF i = 0 \/ word_index + i < StorageSize(num_bits)
     THEN buf[word_index + i + 1]
     ELSE 0]

\* const int word_ones_count[8] (lines 271-276)
WordOnesCounts(word) == [i \in 0 .. 7 |-> popcountll(word[i])]

\* The setter calls with the count at 5 set before the count at 4.
BuildRankEntryFiveFirst(old, abs_ones_count, word_ones_count) ==
  LET c1 == ToUint32(abs_ones_count + word_ones_count[0])
      c2 == ToUint32(c1 + word_ones_count[1])
      c3 == ToUint32(c2 + word_ones_count[2])
      c4 == ToUint32(c3 + word_ones_count[3])
      c5 == ToUint32(c4 + word_ones_count[4])
      c6 == ToUint32(c5 + word_ones_count[5])
      c7 == ToUint32(c6 + word_ones_count[6])
      c8 == ToUint32(c7 + word_ones_count[7])
      e0 == set_absolute_ones_count(old, abs_ones_count)
      e1 == set_relative_ones_count_1(e0, ToUint32(c1 - abs_ones_count))
      e2 == set_relative_ones_count_2(e1, ToUint32(c2 - abs_ones_count))
      e3 == set_relative_ones_count_3(e2, ToUint32(c3 - abs_ones_count))
      e4 == set_relative_ones_count_5(e3, ToUint32(c5 - abs_ones_count))
      e5 == set_relative_ones_count_4(e4, ToUint32(c4 - abs_ones_count))
      e6 == set_relative_ones_count_6(e5, ToUint32(c6 - abs_ones_count))
      e7 == set_relative_ones_count_7(e6, ToUint32(c7 - abs_ones_count))
      \* a setter call: which setter, and whether the stored differences
      \* of the entry were 0 when it was called
      Call(e, k) ==
        [k |-> k,
         clean |-> e.relative_ones_counts_[2] = << 0, 0, 0 >>]
  IN [entry |-> e7,
      ones_count |-> c8,
      calls |-> << Call(e0, 1), Call(e1, 2), Call(e2, 3), Call(e3, 5),
                   Call(e4, 4), Call(e5, 6), Call(e6, 7) >>,
      dchk |-> /\ check_set_relative_ones_count(e0, 1, ToUint32(c1 - abs_ones_count))
               /\ check_set_relative_ones_count(e1, 2, ToUint32(c2 - abs_ones_count))
               /\ check_set_relative_ones_count(e2, 3, ToUint32(c3 - abs_ones_count))
               /\ check_set_relative_ones_count(e3, 5, ToUint32(c5 - abs_ones_count))
               /\ check_set_relative_ones_count(e4, 4, ToUint32(c4 - abs_ones_count))
               /\ check_set_relative_ones_count(e5, 6, ToUint32(c6 - abs_ones_count))
               /\ check_set_relative_ones_count(e6, 7, ToUint32(c7 - abs_ones_count))]

\* The setter calls of lines 278-295 on the entry of one block.  The result
\* holds the entry, ones_count after the block, the calls of the setters of
\* the relative counts in the order they are made, and whether the setters'
\* DFST_CHECKs held.
BuildRankEntry(old, abs_ones_count, word_ones_count) ==
  LET c1 == ToUint32(abs_ones_count + word_ones_count[0])
      c2 == ToUint32(c1 + word_ones_count[1])
      c3 == ToUint32(c2 + word_ones_count[2])
      c4 == ToUint32(c3 + word_ones_count[3])
      c5 == ToUint32(c4 + word_ones_count[4])
      c6 == ToUint32(c5 + word_ones_count[5])
      c7 == ToUint32(c6 + word_ones_count[6])
      c8 == ToUint32(c7 + word_ones_count[7])
      e0 == set_absolute_ones_count(old, abs_ones_count)
      e1 == set_relative_ones_count_1(e0, ToUint32(c1 - abs_ones_count))
      e2 == set_relative_ones_count_2(e1, ToUint32(c2 - abs_ones_count))
      e3 == set_relative_ones_count_3(e2, ToUint32(c3 - abs_ones_count))
      e4 == set_relative_ones_count_4(e3, ToUint32(c4 - abs_ones_count))
      e5 == set_relative_ones_count_5(e4, ToUint32(c5 - abs_ones_count))
      e6 == set_relative_ones_count_6(e5, ToUint32(c6 - abs_ones_count))
      e7 == set_relative_ones_count_7(e6, ToUint32(c7 - abs_ones_count))
      \* a setter call: which setter, and whether the stored differences
      \* of the entry were 0 when it was called
      Call(e, k) ==
        [k |-> k,
         clean |-> e.relative_ones_counts_[2] = << 0, 0, 0 >>]
  IN [entry |-> e7,
      ones_count |-> c8,
      calls |-> << Call(e0, 1), Call(e1, 2), Call(e2, 3), Call(e3, 4),
                   Call(e4, 5), Call(e5, 6), Call(e6, 7) >>,
      dchk |-> /\ check_set_relative_ones_count(e0, 1, ToUint32(c1 - abs_ones_count))
               /\ check_set_relative_ones_count(e1, 2, ToUint32(c2 - abs_ones_count))
               /\ check_set_relative_ones_count(e2, 3, ToUint32(c3 - abs_ones_count))
               /\ check_set_relative_ones_count(e3, 4, ToUint32(c4 - abs_ones_count))
               /\ check_set_relative_ones_count(e4, 5, ToUint32(c5 - abs_ones_count))
               /\ check_set_relative_ones_count(e5, 6, ToUint32(c6 - abs_ones_count))
               /\ check_set_relative_ones_count(e6, 7, ToUint32(c7 - abs_ones_count))]

\* The select-0 pass counting all the zeros of the stored word, the padding
\* of the last word included.
RECURSIVE BuildSelect0BlockUnclipped(_, _, _, _, _, _, _)
BuildSelect0BlockUnclipped(word, word_ones_count, num_bits, word_index, i, s0_zeros_count, ub) ==
  IF i = 8 THEN [pushed |-> << >>, pre |-> TRUE]
  ELSE
    LET bit_offset == ToUint32((word_index + i) * kStorageBitSize)
    IN IF bit_offset >= num_bits THEN [pushed |-> << >>, pre |-> TRUE]
       ELSE
         LET word_zeros_count == ToInt32(kStorageBitSize - word_ones_count[i])
             zeros_to_skip == ToUint32(-s0_zeros_count) % kBitsPerSelect0Block
         IN IF ToUint32(word_zeros_count) > zeros_to_skip
            THEN [pushed |->
                    << ToUint32(bit_offset
                                + nth_bit(WordNot(word[i]), zeros_to_skip, ub)) >>,
                  pre |-> NthBitPre(WordNot(word[i]), zeros_to_skip)]
            ELSE BuildSelect0BlockUnclipped(word, word_ones_count, num_bits,
                                            word_index, i + 1,
                                            s0_zeros_count + word_zeros_count, ub)

\* The select-0 pass over one block (lines 298-325): the value pushed to
\* select_0_index_, as a one-element sequence, or << >> when none is pushed,
\* and whether the call of nth_bit, if one is made, is within its
\* precondition.
RECURSIVE BuildSelect0Block(_, _, _, _, _, _, _)
BuildSelect0Block(word, word_ones_count, num_bits, word_index, i, s0_zeros_count, ub) ==
  IF i = 8 THEN [pushed |-> << >>, pre |-> TRUE]
  ELSE
    LET bit_offset == ToUint32((word_index + i) * kStorageBitSize)
    IN IF bit_offset >= num_bits THEN [pushed |-> << >>, pre |-> TRUE]
       ELSE
         LET bits_remaining == ToUint32(num_bits - bit_offset)
             word_zeros_count ==
               ToInt32(Min(bits_remaining, kStorageBitSize) - word_ones_count[i])
             zeros_to_skip == ToUint32(-s0_zeros_count) % kBitsPerSelect0Block
         IN IF ToUint32(word_zeros_count) > zeros_to_skip
            THEN [pushed |->
                    << ToUint32(bit_offset
                                + nth_bit(WordNot(word[i]), zeros_to_skip, ub)) >>,
                  pre |-> NthBitPre(WordNot(word[i]), zeros_to_skip)]
            ELSE BuildSelect0Block(word, word_ones_count, num_bits, word_index,
                                   i + 1, s0_zeros_count + word_zeros_count, ub)

\* The select-1 pass skipping ones_count mod 512 ones instead of
\* -ones_count mod 512.
RECURSIVE BuildSelect1BlockSign(_, _, _, _, _, _)
BuildSelect1BlockSign(word, word_ones_count, word_index, i, s1_ones_count, ub) ==
  IF i = 8 THEN [pushed |-> << >>, pre |-> TRUE]
  ELSE
    LET bit_offset == ToUint32((word_index + i) * kStorageBitSize)
        ones_to_skip == ToUint32(s1_ones_count) % kBitsPerSelect1Block
    IN IF ToUint32(word_ones_count[i]) > ones_to_skip
       THEN [pushed |-> << ToUint32(bit_offset + nth_bit(word[i], ones_to_skip, ub)) >>,
             pre |-> NthBitPre(word[i], ones_to_skip)]
       ELSE BuildSelect1BlockSign(word, word_ones_count, word_index, i + 1,
                                  s1_ones_count + word_ones_count[i], ub)

\* The select-1 pass over one block (lines 330-342).
RECURSIVE BuildSelect1Block(_, _, _, _, _, _)
BuildSelect1Block(word, word_ones_count, word_index, i, s1_ones_count, ub) ==
  IF i = 8 THEN [pushed |-> << >>, pre |-> TRUE]
  ELSE
    LET bit_offset == ToUint32((word_index + i) * kStorageBitSize)
        ones_to_skip == ToUint32(-s1_ones_count) % kBitsPerSelect1Block
    IN IF ToUint32(word_ones_count[i]) > ones_to_skip
       THEN [pushed |-> << ToUint32(bit_offset + nth_bit(word[i], ones_to_skip, ub)) >>,
             pre |-> NthBitPre(word[i], ones_to_skip)]
       ELSE BuildSelect1Block(word, word_ones_count, word_index, i + 1,
                              s1_ones_count + word_ones_count[i], ub)

\* The for loop of lines 259-344, from word_index to the end.  st carries
\* rank_index_, select_0_index_, select_1_index_, the locals ones_count and
\* zeros_count, the setter calls made on each entry, nth_pre: whether every
\* call of nth_bit was within its precondition, and dchk.
RECURSIVE BuildLoop(_, _, _, _, _, _, _)
BuildLoop(st, buf, num_bits, enable_select_0_index, enable_select_1_index, word_index, ub) ==
  IF ~(word_index < StorageSize(num_bits)) THEN st
  ELSE
    LET abs_ones_count == st.ones_count
        slot == word_index \div kUnitsPerRankIndexEntry + 1
        \* the state after the block, given its words, their popcounts and
        \* the outcome r of the setter calls
        Advance(word, word_ones_count, r) ==
          [rank_index_ |-> [st.rank_index_ EXCEPT ![slot] = r.entry],
           select_0_index_ |->
             IF enable_select_0_index
             THEN st.select_0_index_
                    \o BuildSelect0Block(word, word_ones_count, num_bits,
                                         word_index, 0, ToInt32(st.zeros_count),
                                         ub).pushed
             ELSE st.select_0_index_,
           select_1_index_ |->
             IF enable_select_1_index
             THEN st.select_1_index_
                    \o BuildSelect1Block(word, word_ones_count, word_index, 0,
                                         ToInt32(abs_ones_count), ub).pushed
             ELSE st.select_1_index_,
           ones_count |-> r.ones_count,
           zeros_count |->
             IF enable_select_0_index
             THEN ToUint32(st.zeros_count + 8 * kStorageBitSize
                           - ToUint32(r.ones_count - abs_ones_count))
             ELSE st.zeros_count,
           setter_calls |->
             Append(st.setter_calls, [entry |-> slot - 1, calls |-> r.calls]),
           nth_pre |->
             /\ st.nth_pre
             /\ enable_select_0_index =>
                  BuildSelect0Block(word, word_ones_count, num_bits, word_index,
                                    0, ToInt32(st.zeros_count), ub).pre
             /\ enable_select_1_index =>
                  BuildSelect1Block(word, word_ones_count, word_index, 0,
                                    ToInt32(abs_ones_count), ub).pre,
           dchk |-> st.dchk /\ r.dchk]
        Counted(word, word_ones_count) ==
          Advance(word, word_ones_count,
                  BuildRankEntry(st.rank_index_[slot], abs_ones_count, word_ones_count))
        Loaded(word) == Counted(word, WordOnesCounts(word))
    IN BuildLoop(Loaded(BlockWords(buf, num_bits, word_index)), buf, num_bits,
                 enable_select_0_index, enable_select_1_index,
                 ToUint32(word_index + 8), ub)

\* resize() alone: the entries the vector already has are kept.
ResizeRankIndex(v, n) == VecResize(v, n, RankIndexEntry)

\* rank_index_.clear(); rank_index_.resize(rank_index_size()) (lines 242-243)
ResetRankIndex(v, n) == VecResize(VecClear(v), n, RankIndexEntry)

\* A select table that is not cleared.
KeepSelectIndex(v) == v

\* select_0_index_.clear(), select_1_index_.clear() (lines 245, 251);
\* reserve does not change the contents.
ResetSelectIndex(v) == VecClear(v)

\* A check that lets num_bits = 2^32 through.
CheckNumBitsInclusive(num_bits) == num_bits <= kUint32Mod

\* DFST_CHECK_LT(num_bits, uint64_t{1} << 32) (line 239)
CheckNumBits(num_bits) == num_bits < kUint32Mod

BuildIndex(self, bits, buf, num_bits, enable_select_0_index, enable_select_1_index, ub) ==
  LET start ==
        [rank_index_ |-> ResetRankIndex(self.rank_index_, rank_index_size(num_bits)),
         select_0_index_ |-> ResetSelectIndex(self.select_0_index_),
         select_1_index_ |-> ResetSelectIndex(self.select_1_index_),
         ones_count |-> 0,
         zeros_count |-> 0,
         setter_calls |-> << >>,
         nth_pre |-> TRUE,
         dchk |-> CheckNumBits(num_bits)]
      \* lines 345-357, on the state st the loop ends in
      Terminate(st) ==
        [bits_ |-> bits,
         num_bits_ |-> num_bits,
         rank_index_ |->
           [st.rank_index_ EXCEPT
              ![Len(st.rank_index_)] =
                 set_absolute_ones_count(st.rank_index_[Len(st.rank_index_)],
                                         st.ones_count)],
         select_0_index_ |->
           IF enable_select_0_index
           THEN VecPushBack(st.select_0_index_, num_bits)
           ELSE st.select_0_index_,
         select_1_index_ |->
           IF enable_select_1_index
           THEN VecPushBack(st.select_1_index_, num_bits)
           ELSE st.select_1_index_,
         setter_calls |-> st.setter_calls,
         nth_pre |-> st.nth_pre,
         dchk |-> st.dchk]
  IN Terminate(BuildLoop(start, buf, num_bits, enable_select_0_index,
                         enable_select_1_index, 0, ub))

(***************************************************************************)
(* Queries (bitmap-index.cc).  self is the object, buf the word array that *)
(* self.bits_ points to.  Pointers into rank_index_ are element indices.   *)
(***************************************************************************)
Bits(self) == self.num_bits_

ArraySize(self) == StorageSize(self.num_bits_)

\* rank_index_[i], bits_[w], select_x_index_[i] as the hardware reads them
RankAt(self, i, ub) ==
  IF 0 <= i /\ i < Len(self.rank_index_) THEN self.rank_index_[i + 1] ELSE ub.entry
BitsAt(buf, w, ub) ==
  IF 0 <= w /\ w < Len(buf) THEN buf[w + 1] ELSE ub.word
SelectAt(v, i, ub) ==
  IF 0 <= i /\ i < Len(v) THEN v[i + 1] ELSE ub.pos

\* static bool Get(const uint64_t* bits, size_t index)
Get(buf, index) ==
  WordAnd(buf[index \div (2 ^ kStorageLogBitSize) + 1],
          ShiftLeft(kOne, WordAnd(index % kWordMod, kStorageBlockMask))) # 0

\* Set shifting by the whole index instead of the index inside the word.
SetUnmasked(buf, index) ==
  [buf EXCEPT ![index \div (2 ^ kStorageLogBitSize) + 1] =
     WordOr(@, ShiftLeft(kOne, index))]

\* static void Set(uint64_t* bits, size_t index)
Set(buf, index) ==
  [buf EXCEPT ![index \div (2 ^ kStorageLogBitSize) + 1] =
     WordOr(@, ShiftLeft(kOne, WordAnd(index % kWordMod, kStorageBlockMask)))]

\* static void Clear(uint64_t* bits, size_t index)
Clear(buf, index) ==
  [buf EXCEPT ![index \div (2 ^ kStorageLogBitSize) + 1] =
     WordAnd(@, WordNot(ShiftLeft(kOne, WordAnd(index % kWordMod, kStorageBlockMask))))]

\* rank_index_.back().absolute_ones_count()
GetOnesCount(self, ub) ==
  absolute_ones_count(RankAt(self, Len(self.rank_index_) - 1, ub))

\* The count inside the block alone, without the block's absolute count.
GetIndexOnesCountInBlock(self, array_index, ub) ==
  LET rank_index_entry == RankAt(self, array_index \div kUnitsPerRankIndexEntry, ub)
  IN ToUint32(relative_ones_count(rank_index_entry,
                                  array_index % kUnitsPerRankIndexEntry))

GetIndexOnesCount(self, array_index, ub) ==
  LET rank_index_entry == RankAt(self, array_index \div kUnitsPerRankIndexEntry, ub)
  IN ToUint32(absolute_ones_count(rank_index_entry)
              + relative_ones_count(rank_index_entry,
                                    array_index % kUnitsPerRankIndexEntry))

\* Rank1 counting the whole of the last word.
Rank1WholeWord(self, buf, end, ub) ==
  IF end = 0 THEN 0
  ELSE IF end >= self.num_bits_ THEN GetOnesCount(self, ub)
  ELSE
    LET end_word == ToUint32(end \div kStorageBitSize)
        sum == GetIndexOnesCount(self, end_word, ub)
        bit_index == end % kStorageBitSize
    IN IF bit_index = 0 THEN sum
       ELSE ToUint32(sum + popcountll(BitsAt(buf, end_word, ub)))

Rank1(self, buf, end, ub) ==
  IF end = 0 THEN 0
  ELSE IF end >= self.num_bits_ THEN GetOnesCount(self, ub)
  ELSE
    LET end_word == ToUint32(end \div kStorageBitSize)
        sum == GetIndexOnesCount(self, end_word, ub)
        bit_index == end % kStorageBitSize
    IN IF bit_index = 0 THEN sum
       ELSE ToUint32(sum + popcountll(WordAnd(BitsAt(buf, end_word, ub),
                                              kLowBitsMasks(bit_index))))

\* The subtraction the other way round.
Rank0Swapped(self, buf, end, ub) == ToSize(Rank1(self, buf, end, ub) - end)

Rank0(self, buf, end, ub) == ToSize(end - Rank1(self, buf, end, ub))

\* A bisection for the first index whose absolute count is at least
\* bit_index, as std::lower_bound does.
RECURSIVE LowerBound(_, _, _, _, _)
LowerBound(self, first, len, bit_index, ub) ==
  IF len <= 0 THEN first
  ELSE LET half == len \div 2
           mid == first + half
       IN IF bit_index <= absolute_ones_count(RankAt(self, mid, ub))
          THEN LowerBound(self, first, half, bit_index, ub)
          ELSE LowerBound(self, mid + 1, len - half - 1, bit_index, ub)

\* std::upper_bound(first, first + len, value) with the comparator of
\* FindRankIndexEntry: the first index whose absolute count is greater than
\* bit_index, found by bisection.
RECURSIVE UpperBound(_, _, _, _, _)
UpperBound(self, first, len, bit_index, ub) ==
  IF len <= 0 THEN first
  ELSE LET half == len \div 2
           mid == first + half
       IN IF bit_index < absolute_ones_count(RankAt(self, mid, ub))
          THEN UpperBound(self, first, half, bit_index, ub)
          ELSE UpperBound(self, mid + 1, len - half - 1, bit_index, ub)

\* The linear scan of FindRankIndexEntry: for (entry = begin; entry != end;
\* ++entry) if (entry->absolute_ones_count() > bit_index) break;
\* A scan that leaves the array reads unspecified entries and stops at an
\* unspecified place; the model stops it one past the terminator.
RECURSIVE LinearScan(_, _, _, _, _)
LinearScan(self, entry, end, bit_index, ub) ==
  IF entry = end THEN entry
  ELSE IF entry > Len(self.rank_index_) THEN entry
  ELSE IF absolute_ones_count(RankAt(self, entry, ub)) > bit_index THEN entry
  ELSE LinearScan(self, entry + 1, end, bit_index, ub)

\* The search of lines 389-404 on the range [begin, end), with the linear
\* scan for a range of at most max_linear_search_blocks entries.
SearchRange(self, begin, end, bit_index, max_linear_search_blocks, ub) ==
  IF end - begin <= max_linear_search_blocks
  THEN LinearScan(self, begin, end, bit_index, ub)
  ELSE UpperBound(self, begin, end - begin, bit_index, ub)

\* FindRankIndexEntry: [index |-> the index of the returned entry e,
\* dchk |-> whether the DFST_CHECKs held, inb |-> whether e and its
\* successor are elements of rank_index_, begin, end |-> the search range].
FindRankIndexEntry(self, bit_index, ub) ==
  LET noindex == self.select_1_index_ = << >>
      select_index == ToUint32(bit_index \div kBitsPerSelect1Block)
      lo_bit_index == SelectAt(self.select_1_index_, select_index, ub)
      hi_bit_index == SelectAt(self.select_1_index_, select_index + 1, ub)
      Search(begin, end) ==
        SearchRange(self, begin, end, bit_index, kMaxLinearSearchBlocks, ub)
      Found(entry, begin, end) ==
        [index |-> entry - 1,
         begin |-> begin,
         end |-> end,
         dchk |-> /\ bit_index < GetOnesCount(self, ub)
                  /\ noindex \/ select_index + 1 < Len(self.select_1_index_)
                  /\ absolute_ones_count(RankAt(self, entry - 1, ub)) <= bit_index
                  /\ absolute_ones_count(RankAt(self, entry, ub)) > bit_index,
         inb |-> 0 <= entry - 1 /\ entry < Len(self.rank_index_)]
      Ranged(begin, end) == Found(Search(begin, end), begin, end)
  IN Ranged(IF noindex THEN 0 ELSE lo_bit_index \div kBitsPerSelect1Block,
            IF noindex THEN Len(self.rank_index_)
            ELSE ToUint32(hi_bit_index + kBitsPerSelect1Block - 1)
                   \div kBitsPerSelect1Block)

\* FindInvertedRankIndexEntry: the while loop of lines 437-445.
RECURSIVE InvertedBisect(_, _, _, _, _)
InvertedBisect(self, lo, hi, bit_index, ub) ==
  IF ~(lo + 1 < hi) THEN lo
  ELSE LET mid == ToUint32(lo + (hi - lo) \div 2)
       IN IF bit_index < ToUint32(kBitsPerRankIndexEntry * mid
                                  - absolute_ones_count(RankAt(self, mid, ub)))
          THEN InvertedBisect(self, lo, mid, bit_index, ub)
          ELSE InvertedBisect(self, mid, hi, bit_index, ub)

FindInvertedRankIndexEntry(self, bit_index, ub) ==
  LET noindex == self.select_0_index_ = << >>
      select_index == ToUint32(bit_index \div kBitsPerSelect0Block)
      Found(lo, hi, first) ==
        [index |-> lo,
         first |-> first,
         hi |-> hi,
         dchk |->
           /\ bit_index < self.num_bits_ - GetOnesCount(self, ub)
           /\ noindex \/ select_index + 1 < Len(self.select_0_index_)
           /\ hi < Len(self.rank_index_)
           /\ ToUint32(lo * kBitsPerRankIndexEntry
                       - absolute_ones_count(RankAt(self, lo, ub))) <= bit_index
           /\ IF ToUint32((lo + 1) * kBitsPerRankIndexEntry) <= self.num_bits_
              THEN ToUint32(ToUint32((lo + 1) * kBitsPerRankIndexEntry)
                            - absolute_ones_count(RankAt(self, lo + 1, ub))) > bit_index
              ELSE self.num_bits_ - absolute_ones_count(RankAt(self, lo + 1, ub))
                     > bit_index,
         inb |-> lo < Len(self.rank_index_)]
      Search(lo, hi) == Found(InvertedBisect(self, lo, hi, bit_index, ub), hi, lo)
  IN Search(IF noindex THEN 0
            ELSE SelectAt(self.select_0_index_, select_index, ub)
                   \div kBitsPerSelect0Block,
            IF noindex
            THEN ToUint32((self.num_bits_ + kBitsPerRankIndexEntry - 1)
                            \div kBitsPerRankIndexEntry)
            ELSE ToUint32(SelectAt(self.select_0_index_, select_index + 1, ub)
                          + kBitsPerSelect0Block - 1) \div kBitsPerSelect0Block)

\* The tree with the first comparison letting rembits equal to the count of
\* the first four words into the lower half.
Select1DescendInclusive(entry, rembits) ==
  IF rembits <= relative_ones_count_4(entry)
  THEN IF rembits < relative_ones_count_2(entry)
       THEN IF rembits < relative_ones_count_1(entry)
            THEN [word |-> 0, rem |-> rembits]
            ELSE [word |-> 1, rem |-> ToUint32(rembits - relative_ones_count_1(entry))]
       ELSE IF rembits < relative_ones_count_3(entry)
            THEN [word |-> 2, rem |-> ToUint32(rembits - relative_ones_count_2(entry))]
            ELSE [word |-> 3, rem |-> ToUint32(rembits - relative_ones_count_3(entry))]
  ELSE IF rembits < relative_ones_count_6(entry)
       THEN IF rembits < relative_ones_count_5(entry)
            THEN [word |-> 4, rem |-> ToUint32(rembits - relative_ones_count_4(entry))]
            ELSE [word |-> 5, rem |-> ToUint32(rembits - relative_ones_count_5(entry))]
       ELSE IF rembits < relative_ones_count_7(entry)
            THEN [word |-> 6, rem |-> ToUint32(rembits - relative_ones_count_6(entry))]
            ELSE [word |-> 7, rem |-> ToUint32(rembits - relative_ones_count_7(entry))]

\* The decision tree of Select1 (lines 67-97): the word of the block that
\* holds the wanted bit, and the rank of the bit inside that word.
Select1Descend(entry, rembits) ==
  IF rembits < relative_ones_count_4(entry)
  THEN IF rembits < relative_ones_count_2(entry)
       THEN IF rembits < relative_ones_count_1(entry)
            THEN [word |-> 0, rem |-> rembits]
            ELSE [word |-> 1, rem |-> ToUint32(rembits - relative_ones_count_1(entry))]
       ELSE IF rembits < relative_ones_count_3(entry)
            THEN [word |-> 2, rem |-> ToUint32(rembits - relative_ones_count_2(entry))]
            ELSE [word |-> 3, rem |-> ToUint32(rembits - relative_ones_count_3(entry))]
  ELSE IF rembits < relative_ones_count_6(entry)
       THEN IF rembits < relative_ones_count_5(entry)
            THEN [word |-> 4, rem |-> ToUint32(rembits - relative_ones_count_4(entry))]
            ELSE [word |-> 5, rem |-> ToUint32(rembits - relative_ones_count_5(entry))]
       ELSE IF rembits < relative_ones_count_7(entry)
            THEN [word |-> 6, rem |-> ToUint32(rembits - relative_ones_count_6(entry))]
            ELSE [word |-> 7, rem |-> ToUint32(rembits - relative_ones_count_7(entry))]

\* The decision tree of Select0 (lines 114-144) and, verbatim, of Select0s
\* (lines 162-192), on the zero counts k * kStorageBitSize - relative ones.
Select0Descend(entry, remzeros) ==
  LET z1 == ToUint32(kStorageBitSize - relative_ones_count_1(entry))
      z2 == ToUint32(2 * kStorageBitSize - relative_ones_count_2(entry))
      z3 == ToUint32(3 * kStorageBitSize - relative_ones_count_3(entry))
      z4 == ToUint32(4 * kStorageBitSize - relative_ones_count_4(entry))
      z5 == ToUint32(5 * kStorageBitSize - relative_ones_count_5(entry))
      z6 == ToUint32(6 * kStorageBitSize - relative_ones_count_6(entry))
      z7 == ToUint32(7 * kStorageBitSize - relative_ones_count_7(entry))
  IN IF remzeros < z4
     THEN IF remzeros < z2
          THEN IF remzeros < z1
               THEN [word |-> 0, rem |-> remzeros]
               ELSE [word |-> 1, rem |-> ToUint32(remzeros - z1)]
          ELSE IF remzeros < z3
               THEN [word |-> 2, rem |-> ToUint32(remzeros - z2)]
               ELSE [word |-> 3, rem |-> ToUint32(remzeros - z3)]
     ELSE IF remzeros < z6
          THEN IF remzeros < z5
               THEN [word |-> 4, rem |-> ToUint32(remzeros - z4)]
               ELSE [word |-> 5, rem |-> ToUint32(remzeros - z5)]
          ELSE IF remzeros < z7
               THEN [word |-> 6, rem |-> ToUint32(remzeros - z6)]
               ELSE [word |-> 7, rem |-> ToUint32(remzeros - z7)]

\* Select1, Select0 and Select0s, each with the DFST_CHECKs it executes:
\* [val |-> the value returned, dchk |-> whether every check held,
\* pre |-> whether every call of nth_bit was within its precondition].
Select1Call(self, buf, bit_index, ub) ==
  IF bit_index >= GetOnesCount(self, ub)
  THEN [val |-> Bits(self), dchk |-> TRUE, pre |-> TRUE]
  ELSE
    LET InWord(found, word_index, rem) ==
          [val |-> ToUint32(kStorageBitSize * word_index
                            + nth_bit(BitsAt(buf, word_index, ub), rem, ub)),
           dchk |-> found.dchk,
           pre |-> NthBitPre(BitsAt(buf, word_index, ub), rem),
           block |-> found.index,
           word_index |-> word_index]
        Descended(found, d) ==
          InWord(found,
                 ToUint32(ToUint32(found.index) * kUnitsPerRankIndexEntry + d.word),
                 d.rem)
        InBlock(found, entry) ==
          Descended(found,
                    Select1Descend(entry,
                                   ToUint32(bit_index - absolute_ones_count(entry))))
        Located(found) == InBlock(found, RankAt(self, found.index, ub))
    IN Located(FindRankIndexEntry(self, bit_index, ub))

\* A test that lets bit_index == zeros_count through.
Select0ExhaustedStrict(self, bit_index, ub) ==
  bit_index > ToUint32(Bits(self) - GetOnesCount(self, ub))

\* const uint32_t zeros_count = Bits() - GetOnesCount();
\* if (bit_index >= zeros_count) return Bits();  (lines 104-105)
Select0Exhausted(self, bit_index, ub) ==
  bit_index >= ToUint32(Bits(self) - GetOnesCount(self, ub))

Select0Call(self, buf, bit_index, ub) ==
  IF Select0Exhausted(self, bit_index, ub)
  THEN [val |-> Bits(self), dchk |-> TRUE, pre |-> TRUE]
  ELSE
    LET InWord(found, word_index, rem) ==
          [val |-> ToUint32(kStorageBitSize * word_index
                            + nth_bit(WordNot(BitsAt(buf, word_index, ub)), rem, ub)),
           dchk |-> found.dchk,
           pre |-> NthBitPre(WordNot(BitsAt(buf, word_index, ub)), rem),
           block |-> found.index,
           word_index |-> word_index]
        Descended(found, word_index, d) ==
          InWord(found, ToUint32(word_index + d.word), d.rem)
        InBlock(found, entry, word_index) ==
          Descended(found, word_index,
                    Select0Descend(entry,
                                   ToUint32(bit_index
                                            - ToUint32(kStorageBitSize * word_index
                                                       - absolute_ones_count(entry)))))
        Located(found) ==
          InBlock(found, RankAt(self, found.index, ub),
                  ToUint32(ToUint32(found.index) * kUnitsPerRankIndexEntry))
    IN Located(FindInvertedRankIndexEntry(self, bit_index, ub))

\* A mask that keeps bit nth as well.
Select0sMaskFromNth(nth) == (kWordMod - ShiftLeft(1, nth)) % kWordMod

\* const uint64_t mask = -(uint64_t{0x2} << nth) (line 207)
Select0sMask(nth) == (kWordMod - ShiftLeft(2, nth)) % kWordMod

Select0sCall(self, buf, bit_index, ub) ==
  IF Select0Exhausted(self, bit_index, ub)
  THEN [val |-> << Bits(self), Bits(self) >>, dchk |-> TRUE, pre |-> TRUE]
  ELSE IF Select0Exhausted(self, bit_index + 1, ub)
  THEN LET Last(first) ==
             [val |-> << first.val, Bits(self) >>, dchk |-> first.dchk,
              pre |-> first.pre]
       IN Last(Select0Call(self, buf, bit_index, ub))
  ELSE
    LET \* the second zero is in the same word, or found by Select0; the
        \* locals word_index, nth and masked_inv_word are returned as well
        Pair(found, word_index, nth, pre, masked_inv_word, second) ==
          IF masked_inv_word # 0
          THEN [val |-> << ToUint32(kStorageBitSize * word_index + nth),
                           ToUint32(kStorageBitSize * word_index
                                    + ctzll(masked_inv_word)) >>,
                dchk |-> found.dchk,
                pre |-> pre,
                block |-> found.index,
                word_index |-> word_index, nth |-> nth,
                masked_inv_word |-> masked_inv_word]
          ELSE [val |-> << ToUint32(kStorageBitSize * word_index + nth),
                           second.val >>,
                dchk |-> found.dchk /\ second.dchk,
                pre |-> pre /\ second.pre,
                block |-> found.index,
                word_index |-> word_index, nth |-> nth,
                masked_inv_word |-> masked_inv_word]
        Nth(found, word_index, inv_word, nth, pre) ==
          Pair(found, word_index, nth, pre,
               WordAnd(inv_word, Select0sMask(nth)),
               Select0Call(self, buf, bit_index + 1, ub))
        InWord(found, word_index, inv_word, rem) ==
          Nth(found, word_index, inv_word, nth_bit(inv_word, rem, ub),
              NthBitPre(inv_word, rem))
        Descended(found, word_index, d) ==
          InWord(found, ToUint32(word_index + d.word),
                 WordNot(BitsAt(buf, ToUint32(word_index + d.word), ub)), d.rem)
        InBlock(found, entry, word_index) ==
          Descended(found, word_index,
                    Select0Descend(entry,
                                   ToUint32(bit_index
                                            - ToUint32(kStorageBitSize * word_index
                                                       - absolute_ones_count(entry)))))
        Located(found) ==
          InBlock(found, RankAt(self, found.index, ub),
                  ToUint32(ToUint32(found.index) * kUnitsPerRankIndexEntry))
    IN Located(FindInvertedRankIndexEntry(self, bit_index, ub))

Select1(self, buf, bit_index, ub) == Select1Call(self, buf, bit_index, ub).val
Select0(self, buf, bit_index, ub) == Select0Call(self, buf, bit_index, ub).val
Select0s(self, buf, bit_index, ub) == Select0sCall(self, buf, bit_index, ub).val

(***************************************************************************)
(* The state machine: one BitmapIndex object, the caller's bit buffers,    *)
(* and the caller's last completed call.                                   *)
(***************************************************************************)
VARIABLES
  mem,              \* the caller's bit buffers: buffer id -> word array
  bits_,            \* const uint64_t* bits_: a buffer id, 0 for nullptr
  num_bits_,        \* size_t num_bits_
  rank_index_,      \* std::vector<RankIndexEntry>
  select_0_index_,  \* std::vector<uint32_t>
  select_1_index_,  \* std::vector<uint32_t>
  lifecycle,        \* "Unbuilt", "Built", "Invalid": the indexed buffer
                    \* was changed after the last BuildIndex, or "Aborted":
                    \* an assertion failed and ended the program
  call,             \* the last completed call and its arguments
  ret,              \* its result: << >> (void), <<v>>, or <<first, second>>
  dchk,             \* TRUE when every DFST_CHECK of the last call held
  history,          \* what the last BuildIndex call found in the object
  ndebug,           \* TRUE when the program was compiled with NDEBUG:
                    \* DFST_CHECK is assert (log.h), which then expands to
                    \* nothing; otherwise a failed check ends the program
  readers           \* the threads that query the object concurrently: for
                    \* each its call, its position in it and its locals

vars == << mem, bits_, num_bits_, rank_index_, select_0_index_,
           select_1_index_, lifecycle, call, ret, dchk, history, ndebug,
           readers >>

index == << bits_, num_bits_, rank_index_, select_0_index_, select_1_index_ >>

\* The object as the record the operators above work on.
Self ==
  [bits_ |-> bits_, num_bits_ |-> num_bits_, rank_index_ |-> rank_index_,
   select_0_index_ |-> select_0_index_, select_1_index_ |-> select_1_index_]

(***************************************************************************)
(* Inputs.                                                                 *)
(***************************************************************************)
\* Number of buffers the caller owns.
NumBuffers == 2
BufferIds == 1 .. NumBuffers

\* Words per buffer: room for the longest supported vector.
BufferWords == StorageSize(kUint32Mod - 1)

\* num_bits arguments for the first buffer: the empty vector; exactly one
\* block; two blocks, the second ending inside its fourth word; and four
\* blocks ending inside a word, less than one block below the largest
\* supported length kUint32Mod - 1.  The other buffers hold a vector of
\* OtherLength bits.
OtherLength == 90
Lengths(bits) == IF bits = 1 THEN {0, 32, 45, 101} ELSE {OtherLength}

\* The buffer and the bit position the caller changes with Set and Clear.
MutatedBuffers == {1}
MutatedPositions == {46}

\* Returns of reads and of nth_bit outside their preconditions.
Unspecified ==
  { [nth |-> 0, word |-> 0, pos |-> 0, entry |-> RankIndexEntry],
    [nth |-> kStorageBitSize, word |-> kWordMod - 1, pos |-> kUint32Mod - 1,
     entry |-> [absolute_ones_count_ |-> kUint32Mod - 1,
                relative_ones_count_4_ |-> kUint16Mod - 1,
                relative_ones_counts_ |->
                  << <<kUint8Mod - 1, kUint8Mod - 1, kUint8Mod - 1>>,
                     <<kUint8Mod - 1, kUint8Mod - 1, kUint8Mod - 1>> >>]] }

\* Bit patterns of 4 blocks, given block by block, word by word.
Block(w) == [i \in 1 .. kUnitsPerRankIndexEntry |-> w]
AllOnes == kWordMod - 1
\* (10)*
Alternating == Block(5) \o Block(5) \o Block(5) \o Block(5)
\* a full block, an empty block, two mixed blocks
Mixed ==
  Block(AllOnes) \o Block(0) \o <<9, 6, AllOnes, 0, 1, 8, AllOnes, 3>>
    \o <<AllOnes, 7, 0, 0, 0, 0, 0, 0>>
Patterns ==
  { \* all zeros
    Block(0) \o Block(0) \o Block(0) \o Block(0),
    \* all ones but bits 45, 46 and 47
    Block(AllOnes)
      \o <<AllOnes, AllOnes, AllOnes, 1, AllOnes, AllOnes, AllOnes, AllOnes>>
      \o Block(AllOnes) \o Block(AllOnes),
    Alternating,
    \* ones at the block boundaries 0, 32, 64 and at 67 and 100
    <<1, 0, 0, 0, 0, 0, 0, 0>> \o <<1, 0, 0, 0, 0, 0, 0, 0>>
      \o <<9, 0, 0, 0, 0, 0, 0, 0>> \o <<0, 1, 0, 0, 0, 0, 0, 0>>,
    Mixed,
    \* ones but for zeros at 5, 70 and 99
    <<AllOnes, 13, AllOnes, AllOnes, AllOnes, AllOnes, AllOnes, AllOnes>>
      \o Block(AllOnes)
      \o <<AllOnes, 11, AllOnes, AllOnes, AllOnes, AllOnes, AllOnes, AllOnes>>
      \o <<7, AllOnes, AllOnes, AllOnes, AllOnes, AllOnes, AllOnes, AllOnes>> }

\* The first n bits of pattern p, followed by zeros (a framed buffer).
Truncate(p, n) ==
  [w \in 1 .. BufferWords |->
     IF kStorageBitSize * w <= n THEN p[w]
     ELSE IF kStorageBitSize * (w - 1) >= n THEN 0
     ELSE p[w] % (2 ^ (n - kStorageBitSize * (w - 1)))]

\* The caller frames the first buffer for the longest length it will pass.
FramedLength == 101

\* What the other buffers hold.
OtherBuffer ==
  Truncate(Block(5) \o Block(AllOnes) \o Block(0) \o Block(6), OtherLength)

NoCall == [op |-> "none", bits |-> 0, arg |-> 0, s0 |-> FALSE, s1 |-> FALSE]

\* history: how the last BuildIndex call relates to the object it was called
\* on.  same: the call before it was BuildIndex with the same arguments;
\* invalid: the indexed buffer had been changed; dropped0, dropped1: the
\* object had a select table that this call disabled; shrunk: the object had
\* more rank index entries than this call needs.
NoHistory ==
  [same |-> FALSE, invalid |-> FALSE, dropped0 |-> FALSE, dropped1 |-> FALSE,
   shrunk |-> FALSE]

\* Number of threads that query the object concurrently.
NumReaders == 2
ReaderIds == 1 .. NumReaders

\* A thread that is not in a call.  op, arg: the call it made; fn,
\* bit_index: the function it is in and that function's argument (Select0s
\* calls Select0); pending: what Select0s does with the value Select0
\* returns; first: the first element Select0s has computed; entry,
\* word_index, rem: the locals of the function; ub: what the call reads
\* outside the arrays.
IdleReader ==
  [pc |-> "idle", op |-> "none", arg |-> 0, fn |-> "none", bit_index |-> 0,
   pending |-> "none", first |-> 0, entry |-> 0, word_index |-> 0, rem |-> 0,
   ub |-> CHOOSE u \in Unspecified : u.nth = 0, val |-> << >>]

\* The default-constructed object and a caller that has made no call.
NewObject ==
  /\ readers = [r \in ReaderIds |-> IdleReader]
  /\ bits_ = 0
  /\ num_bits_ = 0
  /\ rank_index_ = << >>
  /\ select_0_index_ = << >>
  /\ select_1_index_ = << >>
  /\ lifecycle = "Unbuilt"
  /\ call = NoCall
  /\ ret = << >>
  /\ dchk = TRUE
  /\ history = NoHistory

\* The release build: a failed DFST_CHECK shows in dchk and the call goes on.
Init ==
  /\ \E p \in Patterns :
       mem = [b \in BufferIds |->
                IF b = 1 THEN Truncate(p, FramedLength) ELSE OtherBuffer]
  /\ NewObject
  /\ ndebug = TRUE

(***************************************************************************)
(* Actions: one per public operation.  A query needs a built index whose   *)
(* buffer was not changed since (bitmap-index.h, lines 164-166).  A query  *)
(* leaves everything but the caller's record of it unchanged, so the calls *)
(* that may follow a query are the calls that may replace it: the model    *)
(* starts every call from a state that does not show a query's result.     *)
(***************************************************************************)
QueryOps == {"Bits", "Get", "GetOnesCount", "Rank1", "Rank0", "Select1",
             "Select0", "Select0s"}

CanQuery == lifecycle = "Built" /\ call.op \notin QueryOps
CanChange == call.op \notin QueryOps /\ lifecycle # "Aborted"

BuildIndexStep(bits, num_bits, enable_select_0_index, enable_select_1_index, ub) ==
  /\ CanChange
  /\ LET Install(r) ==
           /\ bits_' = r.bits_
           /\ num_bits_' = r.num_bits_
           /\ rank_index_' = r.rank_index_
           /\ select_0_index_' = r.select_0_index_
           /\ select_1_index_' = r.select_1_index_
           /\ dchk' = r.dchk
         \* the assert of line 239 fails before any member is written
         Abort ==
           /\ UNCHANGED index
           /\ dchk' = FALSE
           /\ lifecycle' = "Aborted"
         Run(r) ==
           /\ Install(r)
           /\ lifecycle' = IF ndebug \/ r.dchk THEN "Built" ELSE "Aborted"
     IN IF ~ndebug /\ ~CheckNumBits(num_bits)
        THEN Abort
        ELSE Run(BuildIndex(Self, bits, mem[bits], num_bits,
                            enable_select_0_index, enable_select_1_index, ub))
  /\ call' = [op |-> "BuildIndex", bits |-> bits, arg |-> num_bits,
              s0 |-> enable_select_0_index, s1 |-> enable_select_1_index]
  /\ ret' = << >>
  /\ UNCHANGED << mem, ndebug, readers >>

DoBuildIndex(bits, num_bits, enable_select_0_index, enable_select_1_index, ub) ==
  /\ BuildIndexStep(bits, num_bits, enable_select_0_index,
                    enable_select_1_index, ub)
  /\ UNCHANGED history

\* Set or Clear on the buffer the index was built from invalidates the
\* index: BuildIndex has to be called again before the next query.
Invalidate(bits) ==
  IF lifecycle = "Built" /\ bits = bits_ THEN "Invalid" ELSE lifecycle

DoSet(bits, i) ==
  /\ CanChange
  /\ mem' = [mem EXCEPT ![bits] = Set(@, i)]
  /\ lifecycle' = Invalidate(bits)
  /\ call' = [NoCall EXCEPT !.op = "Set", !.bits = bits, !.arg = i]
  /\ ret' = << >>
  /\ dchk' = TRUE
  /\ UNCHANGED << index, history, ndebug, readers >>

DoClear(bits, i) ==
  /\ CanChange
  /\ mem' = [mem EXCEPT ![bits] = Clear(@, i)]
  /\ lifecycle' = Invalidate(bits)
  /\ call' = [NoCall EXCEPT !.op = "Clear", !.bits = bits, !.arg = i]
  /\ ret' = << >>
  /\ dchk' = TRUE
  /\ UNCHANGED << index, history, ndebug, readers >>

\* A query: only the caller's record of the call changes.
Query(op, arg, result, checks) ==
  /\ CanQuery
  /\ call' = [NoCall EXCEPT !.op = op, !.arg = arg]
  /\ ret' = result
  /\ dchk' = checks
  /\ UNCHANGED << mem, index, lifecycle, history, ndebug, readers >>

DoBits == Query("Bits", 0, << Bits(Self) >>, TRUE)

DoGet(i) == Query("Get", i, << Get(mem[bits_], i) >>, TRUE)

DoGetOnesCount(ub) == Query("GetOnesCount", 0, << GetOnesCount(Self, ub) >>, TRUE)

DoRank1(end, ub) ==
  Query("Rank1", end, << Rank1(Self, mem[bits_], end, ub) >>, end <= Bits(Self))

DoRank0(end, ub) ==
  Query("Rank0", end, << Rank0(Self, mem[bits_], end, ub) >>, end <= Bits(Self))

DoSelect1(k, ub) ==
  LET Return(r) == Query("Select1", k, << r.val >>, r.dchk)
  IN Return(Select1Call(Self, mem[bits_], k, ub))

DoSelect0(k, ub) ==
  LET Return(r) == Query("Select0", k, << r.val >>, r.dchk)
  IN Return(Select0Call(Self, mem[bits_], k, ub))

DoSelect0s(k, ub) ==
  LET Return(r) == Query("Select0s", k, r.val, r.dchk)
  IN Return(Select0sCall(Self, mem[bits_], k, ub))

\* Each disjunct states its action's guard before it draws the arguments.
Next ==
  \/ CanChange
       /\ \E bits \in BufferIds, s0 \in BOOLEAN, s1 \in BOOLEAN, ub \in Unspecified :
            \E num_bits \in Lengths(bits) : DoBuildIndex(bits, num_bits, s0, s1, ub)
  \/ CanChange /\ \E bits \in MutatedBuffers, i \in MutatedPositions : DoSet(bits, i)
  \/ CanChange /\ \E bits \in MutatedBuffers, i \in MutatedPositions : DoClear(bits, i)
  \/ CanQuery /\ DoBits
  \/ CanQuery /\ \E i \in 0 .. (num_bits_ - 1) : DoGet(i)
  \/ CanQuery /\ \E ub \in Unspecified : DoGetOnesCount(ub)
  \/ CanQuery /\ \E end \in 0 .. num_bits_, ub \in Unspecified : DoRank1(end, ub)
  \/ CanQuery /\ \E end \in 0 .. num_bits_, ub \in Unspecified : DoRank0(end, ub)
  \/ CanQuery /\ \E k \in 0 .. (num_bits_ + 1), ub \in Unspecified : DoSelect1(k, ub)
  \/ CanQuery /\ \E k \in 0 .. (num_bits_ + 1), ub \in Unspecified : DoSelect0(k, ub)
  \/ CanQuery /\ \E k \in 0 .. (num_bits_ + 1), ub \in Unspecified : DoSelect0s(k, ub)

Spec == Init /\ [][Next]_vars

(***************************************************************************)
(* A caller that only builds and changes buffers, with the history of each *)
(* BuildIndex call recorded.                                               *)
(***************************************************************************)
HistoryOf(bits, num_bits, enable_select_0_index, enable_select_1_index) ==
  [same |-> call = [op |-> "BuildIndex", bits |-> bits, arg |-> num_bits,
                    s0 |-> enable_select_0_index, s1 |-> enable_select_1_index],
   invalid |-> lifecycle = "Invalid",
   dropped0 |-> select_0_index_ # << >> /\ ~enable_select_0_index,
   dropped1 |-> select_1_index_ # << >> /\ ~enable_select_1_index,
   shrunk |-> Len(rank_index_) > rank_index_size(num_bits)]

TrackedBuildIndex(bits, num_bits, enable_select_0_index, enable_select_1_index, ub) ==
  /\ BuildIndexStep(bits, num_bits, enable_select_0_index,
                    enable_select_1_index, ub)
  /\ history' = HistoryOf(bits, num_bits, enable_select_0_index,
                          enable_select_1_index)

NextRebuild ==
  \/ \E bits \in BufferIds, s0 \in BOOLEAN, s1 \in BOOLEAN, ub \in Unspecified :
       \E num_bits \in Lengths(bits) :
         TrackedBuildIndex(bits, num_bits, s0, s1, ub)
  \/ \E bits \in MutatedBuffers, i \in MutatedPositions : DoSet(bits, i)
  \/ \E bits \in MutatedBuffers, i \in MutatedPositions : DoClear(bits, i)

InitRebuild ==
  /\ Init
  /\ mem[1] \in {Truncate(Alternating, FramedLength),
                 Truncate(Mixed, FramedLength)}

SpecRebuild == InitRebuild /\ [][NextRebuild]_vars

(***************************************************************************)
(* A caller that also passes lengths of 2^32 and more, to a program built  *)
(* with assertions and to one built without.                               *)
(***************************************************************************)
LongLengths == {45, kUint32Mod, kUint32Mod + 5}

\* The buffers hold as many words as the longest of these lengths needs.
LongBufferWords == StorageSize(kUint32Mod + 5)
LongBuffer(p) ==
  [w \in 1 .. LongBufferWords |-> IF w <= Len(p) THEN p[w] ELSE AllOnes]

InitLong ==
  /\ mem = [b \in BufferIds |->
              IF b = 1 THEN LongBuffer(Mixed) ELSE LongBuffer(Alternating)]
  /\ NewObject
  /\ ndebug \in BOOLEAN

NextLong ==
  \/ \E bits \in BufferIds, s0 \in BOOLEAN, s1 \in BOOLEAN, ub \in Unspecified :
       \E num_bits \in LongLengths :
         TrackedBuildIndex(bits, num_bits, s0, s1, ub)
  \/ \E bits \in MutatedBuffers, i \in MutatedPositions : DoSet(bits, i)
  \/ \E bits \in MutatedBuffers, i \in MutatedPositions : DoClear(bits, i)

SpecLong == InitLong /\ [][NextLong]_vars

(***************************************************************************)
(* A caller that uses the static helpers alone: Set and Clear on the first *)
(* buffer, Get on every buffer.                                            *)
(***************************************************************************)
\* The last bit of the first word, the first bit of the second, a bit in
\* the middle of the buffer, and the last bit of the buffer.
HelperPositions ==
  {kStorageBitSize - 1, kStorageBitSize, 46, kStorageBitSize * BufferWords - 1}

\* static bool Get(const uint64_t* bits, size_t index), called by the caller
DoStaticGet(bits, i) ==
  /\ CanChange
  /\ call' = [NoCall EXCEPT !.op = "StaticGet", !.bits = bits, !.arg = i]
  /\ ret' = << Get(mem[bits], i) >>
  /\ dchk' = TRUE
  /\ UNCHANGED << mem, index, lifecycle, history, ndebug, readers >>

NextHelpers ==
  \/ \E bits \in MutatedBuffers, i \in HelperPositions : DoSet(bits, i)
  \/ \E bits \in MutatedBuffers, i \in HelperPositions : DoClear(bits, i)
  \/ \E bits \in BufferIds, i \in HelperPositions : DoStaticGet(bits, i)

SpecHelpers == Init /\ [][NextHelpers]_vars

(***************************************************************************)
(* Concurrent readers.  Each thread runs one query in steps, a step being  *)
(* a stretch of the function that ends with its reads of the object or of  *)
(* the buffer: the early returns; the search of the rank index; the walk   *)
(* down the entry found; the read of the word.  Nothing orders the steps   *)
(* of different threads.                                                   *)
(***************************************************************************)
\* The calls the threads make: Rank1 ending inside a word of the third
\* block; Select1 and Select0 of a bit of the third block; Select0s whose
\* second zero is in a later word; Select0s of the last zero.
ReaderCalls ==
  { << "Rank1", 70 >>, << "Select1", 40 >>, << "Select0", 35 >>,
    << "Select0s", 33 >>, << "Select0s", 47 >> }

\* return val; from the call the thread made
Finished(rd, val) == [rd EXCEPT !.pc = "done", !.val = val]

\* return v; from Select0: to the caller, or to Select0s, which returns
\* {Select0(bit_index), Bits()} (line 153) or {first, Select0(bit_index + 1)}
\* (line 220)
Returned(rd, v, self) ==
  CASE rd.pending = "none" -> Finished(rd, << v >>)
    [] rd.pending = "first" -> Finished(rd, << v, Bits(self) >>)
    [] rd.pending = "second" -> Finished(rd, << rd.first, v >>)

\* Locals that all threads share, as static variables would be.
StoreLocalsStatic(rs, r, word_index, rem) ==
  [k \in DOMAIN rs |->
     [rs[k] EXCEPT !.word_index = word_index, !.rem = rem]]

\* word_index and rembits / remzeros / sum are locals of the call (lines
\* 49-50, 64-67, 108-110, 156-158): each thread has its own.
StoreLocals(rs, r, word_index, rem) ==
  [rs EXCEPT ![r].word_index = word_index, ![r].rem = rem]

ReaderStep(r, pc) ==
  /\ lifecycle = "Built"
  /\ readers[r].pc = pc
  /\ UNCHANGED << mem, index, lifecycle, call, ret, dchk, history, ndebug >>

ReaderStart(r, c, ub) ==
  /\ ReaderStep(r, "idle")
  /\ readers' = [readers EXCEPT ![r] =
                   [IdleReader EXCEPT !.pc = "check", !.op = c[1], !.arg = c[2],
                                      !.fn = c[1], !.bit_index = c[2], !.ub = ub]]

\* The early returns: lines 45-48, 59, 104-105, 151-153.
ReaderCheck(r) ==
  /\ ReaderStep(r, "check")
  /\ LET Go(rd) ==
           CASE rd.fn = "Rank1" ->
                  IF rd.bit_index = 0 THEN Finished(rd, << 0 >>)
                  ELSE IF rd.bit_index >= num_bits_
                  THEN Finished(rd, << GetOnesCount(Self, rd.ub) >>)
                  ELSE [rd EXCEPT !.pc = "find"]
             [] rd.fn = "Select1" ->
                  IF rd.bit_index >= GetOnesCount(Self, rd.ub)
                  THEN Finished(rd, << Bits(Self) >>)
                  ELSE [rd EXCEPT !.pc = "find"]
             [] rd.fn = "Select0" ->
                  IF Select0Exhausted(Self, rd.bit_index, rd.ub)
                  THEN Returned(rd, Bits(Self), Self)
                  ELSE [rd EXCEPT !.pc = "find"]
             [] rd.fn = "Select0s" ->
                  IF Select0Exhausted(Self, rd.bit_index, rd.ub)
                  THEN Finished(rd, << Bits(Self), Bits(Self) >>)
                  ELSE IF Select0Exhausted(Self, rd.bit_index + 1, rd.ub)
                  THEN [rd EXCEPT !.fn = "Select0", !.pending = "first"]
                  ELSE [rd EXCEPT !.pc = "find"]
     IN readers' = [readers EXCEPT ![r] = Go(readers[r])]

\* GetIndexOnesCount (line 50), FindRankIndexEntry (line 60),
\* FindInvertedRankIndexEntry (lines 106, 154).
ReaderFind(r) ==
  /\ ReaderStep(r, "find")
  /\ LET Summed(rd, end_word, sum) ==
           IF rd.bit_index % kStorageBitSize = 0
           THEN [readers EXCEPT ![r] = Finished(rd, << sum >>)]
           ELSE [StoreLocals(readers, r, end_word, sum) EXCEPT ![r].pc = "word"]
         Go(rd) ==
           CASE rd.fn = "Rank1" ->
                  Summed(rd, ToUint32(rd.bit_index \div kStorageBitSize),
                         GetIndexOnesCount(Self,
                                           ToUint32(rd.bit_index \div kStorageBitSize),
                                           rd.ub))
             [] rd.fn = "Select1" ->
                  [readers EXCEPT
                     ![r].entry = FindRankIndexEntry(Self, rd.bit_index, rd.ub).index,
                     ![r].pc = "tree"]
             [] rd.fn \in {"Select0", "Select0s"} ->
                  [readers EXCEPT
                     ![r].entry =
                        FindInvertedRankIndexEntry(Self, rd.bit_index, rd.ub).index,
                     ![r].pc = "tree"]
     IN readers' = Go(readers[r])

\* The walk down the entry: lines 61-97, 107-144, 155-192.
ReaderTree(r) ==
  /\ ReaderStep(r, "tree")
  /\ LET Stored(word_index, d) ==
           [StoreLocals(readers, r, ToUint32(word_index + d.word), d.rem)
              EXCEPT ![r].pc = "word"]
         InBlock(rd, entry, word_index) ==
           IF rd.fn = "Select1"
           THEN Stored(word_index,
                       Select1Descend(entry,
                                      ToUint32(rd.bit_index
                                               - absolute_ones_count(entry))))
           ELSE Stored(word_index,
                       Select0Descend(entry,
                                      ToUint32(rd.bit_index
                                               - ToUint32(kStorageBitSize * word_index
                                                          - absolute_ones_count(entry)))))
         Go(rd) ==
           InBlock(rd, RankAt(Self, rd.entry, rd.ub),
                   ToUint32(ToUint32(rd.entry) * kUnitsPerRankIndexEntry))
     IN readers' = Go(readers[r])

\* The read of the word and the return: lines 55, 99-100, 146-147, 195-221.
ReaderWord(r) ==
  /\ ReaderStep(r, "word")
  /\ LET Pair(rd, nth, masked_inv_word) ==
           IF masked_inv_word # 0
           THEN Finished(rd, << ToUint32(kStorageBitSize * rd.word_index + nth),
                                ToUint32(kStorageBitSize * rd.word_index
                                         + ctzll(masked_inv_word)) >>)
           ELSE [rd EXCEPT !.fn = "Select0", !.pending = "second",
                           !.first = ToUint32(kStorageBitSize * rd.word_index + nth),
                           !.bit_index = rd.bit_index + 1, !.pc = "check"]
         Nth(rd, inv_word, nth) ==
           Pair(rd, nth, WordAnd(inv_word, (kWordMod - ShiftLeft(2, nth)) % kWordMod))
         Go(rd, word) ==
           CASE rd.fn = "Rank1" ->
                  Finished(rd, << ToUint32(rd.rem
                                           + popcountll(WordAnd(word,
                                               kLowBitsMasks(rd.bit_index
                                                             % kStorageBitSize)))) >>)
             [] rd.fn = "Select1" ->
                  Finished(rd, << ToUint32(kStorageBitSize * rd.word_index
                                           + nth_bit(word, rd.rem, rd.ub)) >>)
             [] rd.fn = "Select0" ->
                  Returned(rd, ToUint32(kStorageBitSize * rd.word_index
                                        + nth_bit(WordNot(word), rd.rem, rd.ub)),
                           Self)
             [] rd.fn = "Select0s" ->
                  Nth(rd, WordNot(word), nth_bit(WordNot(word), rd.rem, rd.ub))
         Read(rd) == Go(rd, BitsAt(mem[bits_], rd.word_index, rd.ub))
     IN readers' = [readers EXCEPT ![r] = Read(readers[r])]

\* One BuildIndex call on the framed first buffer, with both select tables
\* or with none, then the readers.
InitReaders ==
  /\ Init
  /\ mem[1] = Truncate(Mixed, FramedLength)

NextReaders ==
  \/ lifecycle = "Unbuilt"
       /\ \E s \in BOOLEAN, ub \in Unspecified :
            DoBuildIndex(1, FramedLength, s, s, ub)
  \/ \E r \in ReaderIds, c \in ReaderCalls, ub \in Unspecified : ReaderStart(r, c, ub)
  \/ \E r \in ReaderIds : ReaderCheck(r)
  \/ \E r \in ReaderIds : ReaderFind(r)
  \/ \E r \in ReaderIds : ReaderTree(r)
  \/ \E r \in ReaderIds : ReaderWord(r)

SpecReaders == InitReaders /\ [][NextReaders]_vars

(***************************************************************************)
(* A caller of RankIndexEntry alone: it makes an entry, sets its absolute  *)
(* count and then calls the setters of the relative counts in the order    *)
(* 1 .. 7, as BuildIndex does, with the cumulative popcounts of the words  *)
(* of a block.  The entry is rank_index_[1]; ret holds the values passed   *)
(* so far, the absolute count first.                                       *)
(***************************************************************************)
\* Absolute counts passed to set_absolute_ones_count.
EntryAbsoluteCounts == {0, kUint32Mod - 1}

\* Popcounts a word can have.
WordCounts == 0 .. kStorageBitSize

\* set_relative_ones_count_k(v) on the entry e
SetRelativeOnesCount(e, k, v) ==
  CASE k = 1 -> set_relative_ones_count_1(e, v)
    [] k = 2 -> set_relative_ones_count_2(e, v)
    [] k = 3 -> set_relative_ones_count_3(e, v)
    [] k = 4 -> set_relative_ones_count_4(e, v)
    [] k = 5 -> set_relative_ones_count_5(e, v)
    [] k = 6 -> set_relative_ones_count_6(e, v)
    [] k = 7 -> set_relative_ones_count_7(e, v)

\* relative_ones_count_k() of the entry e
RelativeOnesCountTyped(e, k) ==
  CASE k = 1 -> relative_ones_count_1(e)
    [] k = 2 -> relative_ones_count_2(e)
    [] k = 3 -> relative_ones_count_3(e)
    [] k = 4 -> relative_ones_count_4(e)
    [] k = 5 -> relative_ones_count_5(e)
    [] k = 6 -> relative_ones_count_6(e)
    [] k = 7 -> relative_ones_count_7(e)

\* RankIndexEntry e; e.set_absolute_ones_count(v);
DoNewEntry(v) ==
  /\ call.op = "none"
  /\ rank_index_' = << set_absolute_ones_count(RankIndexEntry, v) >>
  /\ call' = [NoCall EXCEPT !.op = "set_absolute_ones_count", !.arg = v]
  /\ ret' = << v >>
  /\ dchk' = TRUE
  /\ UNCHANGED << mem, bits_, num_bits_, select_0_index_, select_1_index_,
                  lifecycle, history, ndebug, readers >>

\* ones_count += word_ones_count[k - 1];
\* e.set_relative_ones_count_k(ones_count - abs_ones_count); for the next k
\* (lines 281-295), c being the popcount of the word and ones_count the
\* absolute count plus the count passed before.
DoSetRelativeOnesCount(c) ==
  /\ call.op \in {"set_absolute_ones_count", "set_relative_ones_count"}
  /\ Len(ret) <= 7
  /\ LET Called(k, v) ==
           /\ rank_index_' = << SetRelativeOnesCount(rank_index_[1], k, v) >>
           /\ call' = [NoCall EXCEPT !.op = "set_relative_ones_count",
                                     !.bits = k, !.arg = v]
           /\ ret' = Append(ret, v)
           /\ dchk' = (dchk /\ check_set_relative_ones_count(rank_index_[1], k, v))
         Counted(abs_ones_count, ones_count) ==
           Called(Len(ret), ToUint32(ToUint32(ones_count + c) - abs_ones_count))
     IN Counted(ret[1],
                IF Len(ret) = 1 THEN ret[1] ELSE ToUint32(ret[1] + ret[Len(ret)]))
  /\ UNCHANGED << mem, bits_, num_bits_, select_0_index_, select_1_index_,
                  lifecycle, history, ndebug, readers >>

NextEntry ==
  \/ \E v \in EntryAbsoluteCounts : DoNewEntry(v)
  \/ \E c \in WordCounts : DoSetRelativeOnesCount(c)

\* A new entry, with one of the initial buffers.
InitEntry == Init /\ mem[1] = Truncate(Mixed, FramedLength)

SpecEntry == InitEntry /\ [][NextEntry]_vars

(***************************************************************************)
(* Reference semantics of a bit vector: bit p of the buffer, and counting  *)
(* and locating bits position by position.                                 *)
(***************************************************************************)
BitAt(buf, p) == WordBit(buf[p \div kStorageBitSize + 1], p % kStorageBitSize)

OnesBelow(buf, end) == Cardinality({p \in 0 .. (end - 1) : BitAt(buf, p) = 1})
ZerosBelow(buf, end) == Cardinality({p \in 0 .. (end - 1) : BitAt(buf, p) = 0})

\* The vector the index was built from.
Vector == mem[bits_]

\* The documented framing: the bits of the last word at positions
\* num_bits_ and above are zero.
PaddingIsZero ==
  \A p \in num_bits_ .. (kStorageBitSize * StorageSize(num_bits_) - 1) :
    BitAt(Vector, p) = 0

\* The object before any BuildIndex call.
Unbuilt ==
  [bits_ |-> 0, num_bits_ |-> 0, rank_index_ |-> << >>,
   select_0_index_ |-> << >>, select_1_index_ |-> << >>]

\* num_bits_ is less than one select block below the largest length.
NearLimit == num_bits_ + kBitsPerSelect0Block > kUint32Mod

\* The number of clear bits among the first num_bits_ positions.
ZeroCount == num_bits_ - OnesBelow(Vector, num_bits_)

\* p is the position of the k-th set (clear) bit of the vector, 0-based.
IsKthOne(p, k) ==
  /\ p < num_bits_
  /\ BitAt(Vector, p) = 1
  /\ OnesBelow(Vector, p) = k
  /\ \A ub \in Unspecified : Rank1(Self, Vector, p, ub) = k
IsKthZero(p, k) ==
  /\ p < num_bits_
  /\ BitAt(Vector, p) = 0
  /\ ZerosBelow(Vector, p) = k
  /\ \A ub \in Unspecified : Rank0(Self, Vector, p, ub) = k

\* ---- C1 ----
\* After BuildIndex on a framed buffer, Rank1(end) is the number of set bits
\* in positions [0, end), for every end in 0 .. num_bits.
C1_Rank1CountsOnes ==
  (call.op = "Rank1" /\ PaddingIsZero) => ret = << OnesBelow(Vector, call.arg) >>

C1_Witness ==
  /\ call.op = "Rank1" /\ PaddingIsZero
  /\ call.arg > kBitsPerRankIndexEntry /\ call.arg % kStorageBitSize # 0
  /\ call.arg < num_bits_
  /\ ret[1] > relative_ones_count_1(rank_index_[1]) /\ ret[1] < call.arg

\* ---- C2 ----
\* For every k below the number of set bits, Select1(k) is the position of
\* the k-th set bit: a position below num_bits whose bit is 1 and whose
\* Rank1 is k, whatever select tables were built.
C2_Select1Inverse ==
  (call.op = "Select1" /\ PaddingIsZero /\ call.arg < OnesBelow(Vector, num_bits_))
    => IsKthOne(ret[1], call.arg)

\* C2 holds for every vector shorter than one select block below the
\* largest length, and for every vector built without the select-1 table.
Select1InverseBelowLimit ==
  (~NearLimit \/ select_1_index_ = << >>) => C2_Select1Inverse

\* ---- C3 ----
\* For every k below the number of clear bits among the first num_bits
\* positions, Select0(k) is the position of the k-th clear bit: a position
\* below num_bits whose bit is 0 and whose Rank0 is k; padding positions are
\* never returned.
C3_Select0Inverse ==
  (call.op = "Select0" /\ PaddingIsZero /\ call.arg < ZeroCount)
    => IsKthZero(ret[1], call.arg)

Select0InverseBelowLimit ==
  (~NearLimit \/ select_0_index_ = << >>) => C3_Select0Inverse

C5_Select0sIsPair ==
  (call.op = "Select0s" /\ PaddingIsZero) =>
    /\ \A ub \in Unspecified :
         ret = << Select0(Self, Vector, call.arg, ub),
                  Select0(Self, Vector, call.arg + 1, ub) >>
    /\ call.arg >= ZeroCount => ret = << Bits(Self), Bits(Self) >>
    /\ call.arg + 1 >= ZeroCount => ret[2] = Bits(Self)
    /\ call.arg + 1 < ZeroCount =>
         /\ IsKthZero(ret[1], call.arg)
         /\ IsKthZero(ret[2], call.arg + 1)

Select0sIsPairBelowLimit ==
  (~NearLimit \/ select_0_index_ = << >>) => C5_Select0sIsPair

\* ---- C6 ----
\* Every query on a built index returns what it returns on the index built
\* from the same vector and length without select tables; hence the same
\* for all four combinations of the flags.
SameAnswers(a, b, ub) ==
  /\ GetOnesCount(a, ub) = GetOnesCount(b, ub)
  /\ \A end \in 0 .. num_bits_ :
       /\ Rank1(a, Vector, end, ub) = Rank1(b, Vector, end, ub)
       /\ Rank0(a, Vector, end, ub) = Rank0(b, Vector, end, ub)
  /\ \A k \in 0 .. (num_bits_ + 1) :
       /\ Select1(a, Vector, k, ub) = Select1(b, Vector, k, ub)
       /\ Select0(a, Vector, k, ub) = Select0(b, Vector, k, ub)
       /\ Select0s(a, Vector, k, ub) = Select0s(b, Vector, k, ub)

C6_FlagsDoNotChangeAnswers ==
  (call.op = "BuildIndex" /\ PaddingIsZero) =>
    \A ub \in Unspecified :
      SameAnswers(Self, BuildIndex(Self, bits_, Vector, num_bits_, FALSE, FALSE, ub), ub)

FlagsDoNotChangeAnswersBelowLimit == ~NearLimit => C6_FlagsDoNotChangeAnswers

\* ---- C7 ----
\* The buffer with the padding bits of the final word cleared.
FinalWordCleared(buf, n) ==
  [w \in 1 .. Len(buf) |->
     IF w = StorageSize(n) /\ n % kStorageBitSize # 0
     THEN buf[w] % (2 ^ (n % kStorageBitSize))
     ELSE buf[w]]

\* The buffer with the words past the final word cleared.
OverhangCleared(buf, n) ==
  [w \in 1 .. Len(buf) |-> IF w <= StorageSize(n) THEN buf[w] ELSE 0]

IndexOf(r) ==
  << r.bits_, r.num_bits_, r.rank_index_, r.select_0_index_, r.select_1_index_ >>

SelfAfter ==
  [bits_ |-> bits_', num_bits_ |-> num_bits_', rank_index_ |-> rank_index_',
   select_0_index_ |-> select_0_index_', select_1_index_ |-> select_1_index_']

C8_BuildIndexIdempotent ==
  [][(call.op = "BuildIndex" /\ call' = call /\ PaddingIsZero)
       => /\ index' = index
          /\ dchk' = dchk
          /\ \A ub \in Unspecified : SameAnswers(Self, SelfAfter, ub)]_vars

C8_Witness ==
  /\ call.op = "BuildIndex" /\ history.same
  /\ call.s0 /\ call.s1 /\ PaddingIsZero
  /\ Len(select_0_index_) > 1 /\ Len(select_1_index_) > 1

\* ---- C9 ----
\* After any sequence of BuildIndex calls and buffer changes, the index is
\* the one a newly constructed object gets from the last call: a select
\* table the last call disabled is empty and the rank index has exactly the
\* entries the last length needs.
C9_OnlyLastBuildMatters ==
  call.op = "BuildIndex" =>
    /\ \E ub \in Unspecified :
         index = IndexOf(BuildIndex(Unbuilt, call.bits, mem[call.bits], call.arg,
                                    call.s0, call.s1, ub))
    /\ ~call.s0 => select_0_index_ = << >>
    /\ ~call.s1 => select_1_index_ = << >>
    /\ Len(rank_index_) = rank_index_size(call.arg)

C9_Witness ==
  /\ call.op = "BuildIndex"
  /\ history.invalid /\ history.dropped0 /\ history.dropped1 /\ history.shrunk
  /\ num_bits_ > 0

\* ---- C10 ----
\* For every end in 0 .. Bits(), Rank0(end) is end - Rank1(end), the number
\* of clear bits in [0, end); Rank1(end) is at most end.
C10_Rank0Complement ==
  (call.op = "Rank0" /\ PaddingIsZero) =>
    /\ ret = << ZerosBelow(Vector, call.arg) >>
    /\ \A ub \in Unspecified :
         /\ Rank1(Self, Vector, call.arg, ub) <= call.arg
         /\ ret[1] + Rank1(Self, Vector, call.arg, ub) = call.arg

C10_Witness ==
  /\ call.op = "Rank0" /\ PaddingIsZero
  /\ call.arg = num_bits_ /\ num_bits_ % kStorageBitSize # 0
  /\ ret[1] > 0 /\ ret[1] < call.arg

\* ---- C11 ----
\* ceil(a / b) for a >= 0, b > 0, by its defining inequalities.
CeilDiv(a, b) == CHOOSE n \in 0 .. a : b * n >= a /\ b * (n - 1) < a

\* After BuildIndex on a framed buffer the rank index has
\* ceil(ArraySize / 8) + 1 entries, the last entry's absolute count is the
\* number of set bits of the vector, GetOnesCount() returns it, and for the
\* empty vector the index is one entry holding 0.
C11_RankIndexShape ==
  (lifecycle = "Built" /\ PaddingIsZero) =>
    /\ Len(rank_index_) = CeilDiv(ArraySize(Self), kUnitsPerRankIndexEntry) + 1
    /\ absolute_ones_count(rank_index_[Len(rank_index_)]) = OnesBelow(Vector, num_bits_)
    /\ \A ub \in Unspecified : GetOnesCount(Self, ub) = OnesBelow(Vector, num_bits_)
    /\ call.op = "GetOnesCount" => ret = << OnesBelow(Vector, num_bits_) >>
    /\ num_bits_ = 0 => rank_index_ = << RankIndexEntry >>

C11_Witness ==
  /\ call.op = "GetOnesCount" /\ PaddingIsZero
  /\ ArraySize(Self) % kUnitsPerRankIndexEntry # 0
  /\ Len(rank_index_) = 5
  /\ ret[1] > kBitsPerRankIndexEntry

\* ---- C12 ----
\* Rank1 is monotone and grows by at most one per position: for every
\* i <= j <= Bits(), Rank1(i) <= Rank1(j) and Rank1(j) - Rank1(i) <= j - i,
\* j = Bits() and i, j in different words and blocks included.
C12_Rank1Monotone ==
  (call.op = "Rank1" /\ PaddingIsZero) =>
    \A i \in 0 .. call.arg : \A ub \in Unspecified :
      /\ Rank1(Self, Vector, i, ub) <= ret[1]
      /\ ret[1] - Rank1(Self, Vector, i, ub) <= call.arg - i

C12_Witness ==
  /\ call.op = "Rank1" /\ PaddingIsZero
  /\ call.arg = num_bits_ /\ num_bits_ > 3 * kBitsPerRankIndexEntry
  /\ \A ub \in Unspecified :
       /\ 0 < Rank1(Self, Vector, kBitsPerRankIndexEntry + 1, ub)
       /\ Rank1(Self, Vector, kBitsPerRankIndexEntry + 1, ub) < ret[1]
  /\ ret[1] < call.arg

\* ---- C13 ----
\* The claim as stated: a BuildIndex call with num_bits >= 2^32 is caught by
\* the precondition check and no index array is written.
C13_TooLongIsCaught ==
  [][(call'.op = "BuildIndex" /\ call'.arg >= kUint32Mod)
       => (lifecycle' = "Aborted" /\ index' = index)]_vars

\* Amended: the precondition is a debug assertion, evaluated before any
\* member is written.  For num_bits >= 2^32 it is false; a program built
\* with assertions ends there with the object as it was, a program built
\* with NDEBUG goes on and builds an index for the too-long vector.
C13_CaughtWhenAsserting ==
  [][(call'.op = "BuildIndex" /\ call'.arg >= kUint32Mod) =>
       /\ dchk' = FALSE
       /\ ~ndebug => (lifecycle' = "Aborted" /\ index' = index)
       /\ ndebug => (lifecycle' = "Built" /\ num_bits_' = call'.arg
                       /\ Len(rank_index_') = rank_index_size(call'.arg))]_vars

C13_Witness ==
  /\ call.op = "BuildIndex" /\ call.arg = kUint32Mod
  /\ ~ndebug /\ lifecycle = "Aborted"
  /\ num_bits_ < kUint32Mod /\ Len(rank_index_) > 1

\* ---- C14 ----
\* What a query returns on the object self with the buffer buf.
ResultOf(self, buf, op, arg, ub) ==
  CASE op = "Bits" -> << Bits(self) >>
    [] op = "Get" -> << Get(buf, arg) >>
    [] op = "GetOnesCount" -> << GetOnesCount(self, ub) >>
    [] op = "Rank1" -> << Rank1(self, buf, arg, ub) >>
    [] op = "Rank0" -> << Rank0(self, buf, arg, ub) >>
    [] op = "Select1" -> << Select1(self, buf, arg, ub) >>
    [] op = "Select0" -> << Select0(self, buf, arg, ub) >>
    [] op = "Select0s" -> Select0s(self, buf, arg, ub)

\* Every query leaves the members of the object and the buffers as they
\* were.
QueriesLeaveIndexUnchanged ==
  [][call'.op \in QueryOps
       => (index' = index /\ mem' = mem /\ lifecycle' = lifecycle)]_vars

\* Every query on a framed buffer leaves rank_index_, select_0_index_,
\* select_1_index_, num_bits_, bits_ and the buffer unchanged, so that the
\* same query on the object it leaves returns the same result again.
C14_QueriesArePure ==
  [][(call'.op \in QueryOps /\ PaddingIsZero) =>
       /\ index' = index
       /\ mem' = mem
       /\ \A ub \in Unspecified :
            ResultOf(SelfAfter, mem'[bits_'], call'.op, call'.arg, ub) = ret']_vars

\* C14 holds for every vector shorter than one select block below the
\* largest length, and for every vector built without select tables.
QueriesArePureBelowLimit ==
  [][(~NearLimit \/ (select_0_index_ = << >> /\ select_1_index_ = << >>))
       => ((call'.op \in QueryOps /\ PaddingIsZero) =>
             /\ index' = index
             /\ mem' = mem
             /\ \A ub \in Unspecified :
                  ResultOf(SelfAfter, mem'[bits_'], call'.op, call'.arg, ub)
                    = ret')]_vars

\* ---- C15 ----
\* Under every interleaving of the steps of concurrent readers, no step
\* changes the object or the buffers, and every reader that has returned
\* holds the result its call returns when it runs alone.
C15_ReadersDoNotInterfere ==
  /\ [](\A r \in ReaderIds :
          readers[r].pc = "done" =>
            readers[r].val = ResultOf(Self, Vector, readers[r].op,
                                      readers[r].arg, readers[r].ub))
  /\ [][readers' # readers => (index' = index /\ mem' = mem)]_vars

C15_Witness ==
  /\ readers[1].pc = "done" /\ readers[1].op = "Select0s"
  /\ readers[1].val[2] > readers[1].val[1] + 1
  /\ readers[2].pc = "word" /\ readers[2].op = "Select1"
  /\ select_0_index_ # << >> /\ select_1_index_ # << >>

\* ---- C16 ----
\* The bit positions of a buffer.
PositionsOf(buf) == 0 .. (kStorageBitSize * Len(buf) - 1)

\* The static helpers address bit i as bit (i mod 64) of word (i div 64):
\* Get returns that bit; after Set(bits, i) it is set and after
\* Clear(bits, i) it is clear; Set and Clear leave every other bit of the
\* buffer, and the other buffers, unchanged.
C16_HelpersAddressOneBit ==
  [][/\ call'.op = "StaticGet" =>
          ret' = << BitAt(mem[call'.bits], call'.arg) = 1 >>
     /\ call'.op \in {"Set", "Clear"} =>
          /\ Get(mem'[call'.bits], call'.arg) = (call'.op = "Set")
          /\ BitAt(mem'[call'.bits], call'.arg) = IF call'.op = "Set" THEN 1 ELSE 0
          /\ \A j \in PositionsOf(mem[call'.bits]) \ {call'.arg} :
               /\ BitAt(mem'[call'.bits], j) = BitAt(mem[call'.bits], j)
               /\ Get(mem'[call'.bits], j) = Get(mem[call'.bits], j)
          /\ \A b \in BufferIds \ {call'.bits} : mem'[b] = mem[b]]_vars

C16_Witness ==
  /\ call.op = "Set" /\ call.arg = kStorageBitSize
  /\ Get(mem[call.bits], kStorageBitSize)
  /\ ~Get(mem[call.bits], kStorageBitSize - 1)
  /\ mem[call.bits][1] # 0

\* ---- C17 ----
\* After BuildIndex, for every word index w in 0 .. ArraySize the absolute
\* count of entry w / 8 plus its relative count at w % 8 is the number of
\* set bits of the first w words of the buffer, w = ArraySize included; it
\* is what GetIndexOnesCount(w) returns.
C17_RankIndexCounts ==
  call.op = "BuildIndex" =>
    \A w \in 0 .. ArraySize(Self) :
      /\ absolute_ones_count(rank_index_[w \div kUnitsPerRankIndexEntry + 1])
           + relative_ones_count(rank_index_[w \div kUnitsPerRankIndexEntry + 1],
                                 w % kUnitsPerRankIndexEntry)
           = OnesBelow(Vector, kStorageBitSize * w)
      /\ \A ub \in Unspecified :
           GetIndexOnesCount(Self, w, ub) = OnesBelow(Vector, kStorageBitSize * w)

C17_Witness ==
  /\ call.op = "BuildIndex"
  /\ ArraySize(Self) % kUnitsPerRankIndexEntry # 0
  /\ ~PaddingIsZero
  /\ absolute_ones_count(rank_index_[Len(rank_index_) - 1]) > 0
  /\ relative_ones_count_1(rank_index_[Len(rank_index_) - 1]) > 0
  /\ relative_ones_count(rank_index_[Len(rank_index_) - 1],
                         ArraySize(Self) % kUnitsPerRankIndexEntry)
       > relative_ones_count_1(rank_index_[Len(rank_index_) - 1])

\* ---- C18 ----
\* The number of set bits among the first num_bits_ positions.
OneCount == OnesBelow(Vector, num_bits_)

\* Built with the select-1 table on a framed buffer, select_1_index_ has
\* ceil(ones_count / 512) + 1 entries: entry i is the position of the
\* (512 * i)-th set bit for every i with 512 * i < ones_count, and the last
\* entry is num_bits; built without it, the table is empty.
C18_Select1IndexSamples ==
  (call.op = "BuildIndex" /\ PaddingIsZero) =>
    IF call.s1
    THEN /\ Len(select_1_index_) = CeilDiv(OneCount, kBitsPerSelect1Block) + 1
         /\ \A i \in 0 .. (CeilDiv(OneCount, kBitsPerSelect1Block) - 1) :
              /\ select_1_index_[i + 1] < num_bits_
              /\ BitAt(Vector, select_1_index_[i + 1]) = 1
              /\ OnesBelow(Vector, select_1_index_[i + 1]) = kBitsPerSelect1Block * i
         /\ select_1_index_[Len(select_1_index_)] = num_bits_
    ELSE select_1_index_ = << >>

C18_Witness ==
  /\ call.op = "BuildIndex" /\ PaddingIsZero /\ call.s1
  /\ Len(select_1_index_) = 3
  /\ select_1_index_[2] % kBitsPerSelect1Block # 0
  /\ OneCount % kBitsPerSelect1Block # 0

\* ---- C19 ----
\* Built with the select-0 table on a framed buffer, select_0_index_[i] is
\* the position of the (512 * i)-th clear bit for every i with 512 * i less
\* than the number of clear bits below num_bits, followed by num_bits; the
\* padding is not counted, so the entries before the last are below
\* num_bits and strictly increasing.
C19_Select0IndexSamples ==
  (call.op = "BuildIndex" /\ PaddingIsZero /\ call.s0) =>
    /\ Len(select_0_index_) = CeilDiv(ZeroCount, kBitsPerSelect0Block) + 1
    /\ \A i \in 0 .. (CeilDiv(ZeroCount, kBitsPerSelect0Block) - 1) :
         /\ select_0_index_[i + 1] < num_bits_
         /\ BitAt(Vector, select_0_index_[i + 1]) = 0
         /\ ZerosBelow(Vector, select_0_index_[i + 1]) = kBitsPerSelect0Block * i
         /\ i > 0 => select_0_index_[i] < select_0_index_[i + 1]
    /\ select_0_index_[Len(select_0_index_)] = num_bits_

C19_Witness ==
  /\ call.op = "BuildIndex" /\ PaddingIsZero /\ call.s0
  /\ num_bits_ % kStorageBitSize # 0
  /\ ZeroCount > 0 /\ ZeroCount % kBitsPerSelect0Block = 0
  /\ Len(select_0_index_) = 4

\* ---- C20 ----
\* Block b is the block of the k-th set bit: its entry is not the
\* terminator and its absolute count is at most k and the next entry's is
\* above k.
HoldsKthOne(b, k) ==
  /\ 0 <= b /\ b < Len(rank_index_) - 1
  /\ absolute_ones_count(rank_index_[b + 1]) <= k
  /\ k < absolute_ones_count(rank_index_[b + 2])

\* The range of blocks FindRankIndexEntry searches for bit k when the
\* select-1 table is there (lines 381-386).
NarrowedRange(k) ==
  [lo |-> select_1_index_[k \div kBitsPerSelect1Block + 1] \div kBitsPerSelect1Block,
   hi |-> ToUint32(select_1_index_[k \div kBitsPerSelect1Block + 2]
                   + kBitsPerSelect1Block - 1) \div kBitsPerSelect1Block]

\* For every k below the number of set bits of a framed vector,
\* FindRankIndexEntry(k) returns the one block that holds the k-th set bit,
\* reads inside rank_index_ only, passes its checks, and with the select-1
\* table the range it searches contains that block.
C20_FindRankIndexEntry ==
  (call.op = "BuildIndex" /\ PaddingIsZero) =>
    \A k \in 0 .. (OneCount - 1) :
      /\ \A ub \in Unspecified :
           /\ FindRankIndexEntry(Self, k, ub).dchk
           /\ FindRankIndexEntry(Self, k, ub).inb
           /\ HoldsKthOne(FindRankIndexEntry(Self, k, ub).index, k)
      /\ \A b, c \in 0 .. (Len(rank_index_) - 2) :
           (HoldsKthOne(b, k) /\ HoldsKthOne(c, k)) => b = c
      /\ select_1_index_ # << >> =>
           \E b \in NarrowedRange(k).lo .. (NarrowedRange(k).hi - 1) :
             HoldsKthOne(b, k)

\* C20 holds for every vector shorter than one select block below the
\* largest length, and for every vector built without the select-1 table.
FindRankIndexEntryBelowLimit ==
  (~NearLimit \/ select_1_index_ = << >>) => C20_FindRankIndexEntry

\* ---- C21 ----
\* The number of clear bits of the vector before block j, the vector ending
\* at num_bits_.
ZerosBefore(j) == ZerosBelow(Vector, Min(kBitsPerRankIndexEntry * j, num_bits_))

\* Block b is the block of the k-th clear bit: its entry is not the
\* terminator, at most k clear bits lie before it and more than k before the
\* next block; the same by the stored counts, 512 * j - absolute count of
\* entry j, clipped to num_bits_.
HoldsKthZero(b, k) ==
  /\ 0 <= b /\ b < Len(rank_index_) - 1
  /\ ZerosBefore(b) <= k /\ k < ZerosBefore(b + 1)
  /\ Min(kBitsPerRankIndexEntry * b, num_bits_)
       - absolute_ones_count(rank_index_[b + 1]) <= k
  /\ k < Min(kBitsPerRankIndexEntry * (b + 1), num_bits_)
           - absolute_ones_count(rank_index_[b + 2])

\* For every k below the number of clear bits of a framed vector,
\* FindInvertedRankIndexEntry(k) ends and returns the one block that holds
\* the k-th clear bit, all-ones blocks with equal zero counts included, with
\* and without the select-0 table, and its checks (hi inside rank_index_,
\* the two brackets) hold.
C21_FindInvertedRankIndexEntry ==
  (call.op = "BuildIndex" /\ PaddingIsZero) =>
    \A k \in 0 .. (ZeroCount - 1) :
      /\ \A ub \in Unspecified :
           /\ FindInvertedRankIndexEntry(Self, k, ub).dchk
           /\ FindInvertedRankIndexEntry(Self, k, ub).inb
           /\ HoldsKthZero(FindInvertedRankIndexEntry(Self, k, ub).index, k)
      /\ \A b, c \in 0 .. (Len(rank_index_) - 2) :
           (HoldsKthZero(b, k) /\ HoldsKthZero(c, k)) => b = c

\* C21 holds for every vector shorter than one block below the largest
\* length.
FindInvertedRankIndexEntryBelowLimit ==
  ~NearLimit => C21_FindInvertedRankIndexEntry

\* Without the select-0 table the block returned is the right one at every
\* length; near the largest length a bracket check can still fail.
FindInvertedRankIndexEntryUnnarrowed ==
  (call.op = "BuildIndex" /\ PaddingIsZero /\ select_0_index_ = << >>) =>
    \A k \in 0 .. (ZeroCount - 1) : \A ub \in Unspecified :
      /\ FindInvertedRankIndexEntry(Self, k, ub).inb
      /\ HoldsKthZero(FindInvertedRankIndexEntry(Self, k, ub).index, k)

\* ---- C22 ----
\* The number of set bits of the vector before word w, the vector ending at
\* num_bits_.
OnesBeforeWord(w) == OnesBelow(Vector, Min(kStorageBitSize * w, num_bits_))

\* The relative count of entry b at j in 0 .. 8, the count at 8 being the
\* difference of the absolute counts of entries b + 1 and b; and the
\* relative zero count 64 * j - relative ones.
RelativeOnes(b, j) ==
  IF j = kUnitsPerRankIndexEntry
  THEN absolute_ones_count(rank_index_[b + 2]) - absolute_ones_count(rank_index_[b + 1])
  ELSE relative_ones_count(rank_index_[b + 1], j)
RelativeZeros(b, j) == kStorageBitSize * j - RelativeOnes(b, j)

\* d, what a decision tree returned for the remainder r, is the one word j
\* of the block with rel[j] <= r < rel[j + 1], and the remainder it leaves
\* is r - rel[j]; rel holds the relative counts of the block at 0 .. 8.
PicksWord(d, r, rel) ==
  /\ d.word \in 0 .. (kUnitsPerRankIndexEntry - 1)
  /\ rel[d.word] <= r /\ r < rel[d.word + 1]
  /\ d.rem = r - rel[d.word]
  /\ \A j \in 0 .. (kUnitsPerRankIndexEntry - 1) :
       (rel[j] <= r /\ r < rel[j + 1]) => j = d.word

RelativeOnesOf(b) == [j \in 0 .. kUnitsPerRankIndexEntry |-> RelativeOnes(b, j)]
RelativeZerosOf(b) == [j \in 0 .. kUnitsPerRankIndexEntry |-> RelativeZeros(b, j)]

\* In every block of a framed vector, for every remainder below the number
\* of set bits of the block the tree of Select1 returns the one word whose
\* relative counts bracket the remainder, and the remainder less the count
\* before that word; the tree of Select0 and Select0s does so on the zero
\* counts.  The word returned is the word of the vector that holds the bit,
\* words without set bits or without clear bits in the block included.
C22_DecisionTree ==
  (call.op = "BuildIndex" /\ PaddingIsZero) =>
    \A b \in 0 .. (Len(rank_index_) - 2) :
      /\ \A r \in 0 .. (RelativeOnes(b, kUnitsPerRankIndexEntry) - 1) :
           /\ PicksWord(Select1Descend(rank_index_[b + 1], r), r, RelativeOnesOf(b))
           /\ OnesBeforeWord(kUnitsPerRankIndexEntry * b
                             + Select1Descend(rank_index_[b + 1], r).word)
                = absolute_ones_count(rank_index_[b + 1]) + r
                    - Select1Descend(rank_index_[b + 1], r).rem
           /\ OnesBeforeWord(kUnitsPerRankIndexEntry * b
                             + Select1Descend(rank_index_[b + 1], r).word + 1)
                > absolute_ones_count(rank_index_[b + 1]) + r
      /\ \A r \in 0 .. (RelativeZeros(b, kUnitsPerRankIndexEntry) - 1) :
           PicksWord(Select0Descend(rank_index_[b + 1], r), r, RelativeZerosOf(b))
      /\ \A r \in 0 .. (ZerosBefore(b + 1) - ZerosBefore(b) - 1) :
           /\ ZerosBelow(Vector, kStorageBitSize
                                   * (kUnitsPerRankIndexEntry * b
                                      + Select0Descend(rank_index_[b + 1], r).word))
                = ZerosBefore(b) + r - Select0Descend(rank_index_[b + 1], r).rem
           /\ ZerosBelow(Vector,
                         Min(kStorageBitSize
                               * (kUnitsPerRankIndexEntry * b
                                  + Select0Descend(rank_index_[b + 1], r).word + 1),
                             num_bits_))
                > ZerosBefore(b) + r

\* A block whose word 3 has no set bit and whose word 6 has no clear bit:
\* the remainders that meet the equal counts are sent to words 4 and 7.
C22_Witness ==
  /\ call.op = "BuildIndex" /\ PaddingIsZero
  /\ \E b \in 0 .. (Len(rank_index_) - 2) :
       /\ RelativeOnes(b, 3) = RelativeOnes(b, 4)
       /\ RelativeOnes(b, 4) < RelativeOnes(b, 5)
       /\ Select1Descend(rank_index_[b + 1], RelativeOnes(b, 3)).word = 4
       /\ RelativeZeros(b, 6) = RelativeZeros(b, 7)
       /\ RelativeZeros(b, 7) < RelativeZeros(b, 8)
       /\ Select0Descend(rank_index_[b + 1], RelativeZeros(b, 6)).word = 7

\* ---- C23 ----
\* p is the position of the k-th clear bit of the vector, by counting.
KthZeroAt(p, k) ==
  p < num_bits_ /\ BitAt(Vector, p) = 0 /\ ZerosBelow(Vector, p) = k

\* The locals of the Select0s call c for the k-th clear bit are right: nth
\* is a bit position and bit nth of word word_index is the k-th clear bit.
FirstZeroFound(c, k) ==
  /\ c.nth \in BitPos
  /\ c.word_index < StorageSize(num_bits_)
  /\ KthZeroAt(kStorageBitSize * c.word_index + c.nth, k)

Select0sAcrossWords ==
  /\ call.op = "Select0s" /\ PaddingIsZero /\ call.arg + 1 < ZeroCount
  /\ KthZeroAt(ret[1], call.arg)
  /\ ret[1] % kStorageBitSize = kStorageBitSize - 1
  /\ KthZeroAt(ret[2], call.arg + 1)
  /\ ret[2] > ret[1] + kStorageBitSize

\* ---- C24 ----
\* After the setters were called in the order 1 .. k on a new entry with
\* the cumulative counts v_1 <= ... <= v_k of a block, every typed getter
\* relative_ones_count_j(), j <= k, returns v_j, the general getter
\* relative_ones_count(j) returns 0 for j = 0 and v_j for j in 1 .. k, and
\* absolute_ones_count() returns the value it was set to.
C24_EntryRoundTrip ==
  call.op \in {"set_absolute_ones_count", "set_relative_ones_count"} =>
    /\ absolute_ones_count(rank_index_[1]) = ret[1]
    /\ relative_ones_count(rank_index_[1], 0) = 0
    /\ \A k \in 1 .. (Len(ret) - 1) :
         /\ RelativeOnesCountTyped(rank_index_[1], k) = ret[k + 1]
         /\ relative_ones_count(rank_index_[1], k) = ret[k + 1]
         /\ relative_ones_count(rank_index_[1], k)
              = RelativeOnesCountTyped(rank_index_[1], k)

\* All seven setters were called; the first four words are full, so that the
\* count at 4 does not fit in a byte and the byte the general getter loads
\* in front of the counts 1 .. 3 is not 0.
C24_Witness ==
  /\ call.op = "set_relative_ones_count" /\ Len(ret) = 8
  /\ ret[1] = kUint32Mod - 1
  /\ ret[5] = 4 * kStorageBitSize
  /\ ret[5] >= kUint8Mod
  /\ ret[8] > ret[5] /\ ret[8] = 7 * kStorageBitSize

\* ---- C25 ----
\* The popcounts of the first seven words of the block whose cumulative
\* counts are in ret, followed by c for the eighth word.
WordCountsPassed(c) ==
  [i \in 0 .. 7 |->
     IF i = 7 THEN c
     ELSE IF i = 0 THEN ret[2]
     ELSE ret[i + 2] - ret[i + 1]]

\* Every value BuildIndex passes to a setter is stored as it is: the counts
\* at 1, 2 and 3 are at most three words and less than 2^8, the count at 4
\* is at most four words and less than 2^16, the differences stored for 5, 6
\* and 7 are at most three words and less than 2^8, for every block content,
\* the block of set bits only included; the range checks of the setters
\* hold, and the entry is the one BuildIndex makes of these word counts.
C25_PackedFieldsFit ==
  call.op = "set_relative_ones_count" =>
    /\ dchk
    /\ call.arg <= call.bits * kStorageBitSize
    /\ call.bits \in 1 .. 3 =>
         /\ call.arg <= 3 * kStorageBitSize /\ call.arg < kUint8Mod
         /\ rank_index_[1].relative_ones_counts_[1][call.bits] = call.arg
    /\ call.bits = 4 =>
         /\ call.arg <= 4 * kStorageBitSize /\ call.arg < kUint16Mod
         /\ rank_index_[1].relative_ones_count_4_ = call.arg
    /\ call.bits \in 5 .. 7 =>
         /\ call.arg - ret[5] <= 3 * kStorageBitSize
         /\ call.arg - ret[5] < kUint8Mod
         /\ rank_index_[1].relative_ones_counts_[2][call.bits - 4]
              = call.arg - ret[5]
    /\ call.bits = 7 =>
         LET Made(r) == r.entry = rank_index_[1] /\ r.dchk
         IN \A c \in {0, kStorageBitSize} :
              Made(BuildRankEntry(RankIndexEntry, ret[1], WordCountsPassed(c)))

\* The block of set bits only: the count at 4 does not fit in a byte, the
\* counts at 5, 6 and 7 do not either, their stored differences do.
C25_Witness ==
  /\ call.op = "set_relative_ones_count" /\ call.bits = 7
  /\ ret[1] = 0
  /\ \A k \in 1 .. 7 : ret[k + 1] = k * kStorageBitSize
  /\ ret[5] >= kUint8Mod /\ ret[8] >= kUint8Mod
  /\ rank_index_[1].relative_ones_counts_[2][3] = 3 * kStorageBitSize

\* Every BuildIndex call with a length below 2^32 passes the checks of the
\* setters, on every vector of the caller.
BuildIndexChecksHold ==
  (call.op = "BuildIndex" /\ call.arg < kUint32Mod) => dchk

\* ---- C26 ----
\* The setter calls c made on one entry keep the protocol: the setter of
\* the count at 4 is called once, before the setters of the counts at 5, 6
\* and 7, and the stored differences of the entry are 0 when it is called.
KeepsSetterProtocol(c) ==
  /\ Cardinality({i \in 1 .. Len(c) : c[i].k = 4}) = 1
  /\ \A i \in 1 .. Len(c) :
       /\ c[i].k = 4 => c[i].clean
       /\ c[i].k \in {5, 6, 7} => \E j \in 1 .. (i - 1) : c[j].k = 4

\* In every BuildIndex call, the first on a new object and every later one
\* on an object that holds an index, each entry but the last gets its
\* setter calls once and they keep the protocol, so the checks of the
\* setters hold.
C26_SetterProtocol ==
  [][call'.op = "BuildIndex" =>
       /\ dchk'
       /\ \A ub \in Unspecified :
            \A made \in {BuildIndex(Self, call'.bits, mem[call'.bits], call'.arg,
                                    call'.s0, call'.s1, ub).setter_calls} :
              /\ Len(made) = rank_index_size(call'.arg) - 1
              /\ \A i \in 1 .. Len(made) :
                   /\ made[i].entry = i - 1
                   /\ KeepsSetterProtocol(made[i].calls)]_vars

\* A BuildIndex call on an object whose entries hold differences that are
\* not 0, left by the same call made before.
C26_Witness ==
  /\ call.op = "BuildIndex" /\ history.same /\ dchk
  /\ \E i \in 1 .. Len(rank_index_) :
       /\ rank_index_[i].relative_ones_counts_[2][1] # 0
       /\ rank_index_[i].relative_ones_counts_[2][3] # 0

\* ---------------------------------------------------------------------------
\* C27: the precondition of nth_bit at every call site
\* ---------------------------------------------------------------------------

\* Whether every call of nth_bit made by the operation of the current state
\* was within the precondition r < popcount(w), for every outcome of
\* unspecified behaviour.
NthBitCallsWithinPrecondition ==
  /\ call.op = "BuildIndex" =>
       \A ub \in Unspecified :
         BuildIndex(Self, bits_, Vector, num_bits_, call.s0, call.s1, ub).nth_pre
  /\ call.op = "Select1" =>
       \A ub \in Unspecified : Select1Call(Self, Vector, call.arg, ub).pre
  /\ call.op = "Select0" =>
       \A ub \in Unspecified : Select0Call(Self, Vector, call.arg, ub).pre
  /\ call.op = "Select0s" =>
       \A ub \in Unspecified : Select0sCall(Self, Vector, call.arg, ub).pre

\* C27: on a bit vector whose padding bits are zero, every call of
\* nth_bit(w, r) made by BuildIndex, Select1, Select0 and Select0s satisfies
\* r < popcount(w).
C27_NthBitPrecondition ==
  PaddingIsZero => NthBitCallsWithinPrecondition

\* The same for lengths at least one select block below 2^32, where no 32-bit computation of
\* the block search wraps.
NthBitPreconditionBelowLimit ==
  (PaddingIsZero /\ ~NearLimit)
    => NthBitCallsWithinPrecondition

\* The same without select tables at every length.
NthBitPreconditionWithoutTables ==
  (PaddingIsZero /\ select_0_index_ = << >> /\ select_1_index_ = << >>)
    => NthBitCallsWithinPrecondition

\* ---------------------------------------------------------------------------
\* C28: the words and the array elements an operation reads
\* ---------------------------------------------------------------------------

\* The reads of an operation: the indices w of the words bits[w] and the
\* indices of the elements of rank_index_, select_0_index_ and
\* select_1_index_ it reads.
Reads(words, entries, samples0, samples1) ==
  [bits |-> words, rank_index_ |-> entries,
   select_0_index_ |-> samples0, select_1_index_ |-> samples1]

NoReads == Reads({}, {}, {}, {})

JoinReads(a, b) ==
  Reads(a.bits \cup b.bits, a.rank_index_ \cup b.rank_index_,
        a.select_0_index_ \cup b.select_0_index_,
        a.select_1_index_ \cup b.select_1_index_)

\* Get (bitmap-index.h): the word of the bit.
GetReads(i) == Reads({i \div (2 ^ kStorageLogBitSize)}, {}, {}, {})

\* rank_index_.back()
GetOnesCountReads(self) == Reads({}, {Len(self.rank_index_) - 1}, {}, {})

\* Rank1 (lines 42-56): the entry of the block of end_word, and bits_[end_word]
\* when end is not a multiple of the word size.
Rank1Reads(self, end) ==
  IF end = 0 THEN NoReads
  ELSE IF end >= self.num_bits_ THEN GetOnesCountReads(self)
  ELSE
    LET end_word == ToUint32(end \div kStorageBitSize)
    IN Reads(IF end % kStorageBitSize = 0 THEN {} ELSE {end_word},
             {end_word \div kUnitsPerRankIndexEntry}, {}, {})

\* The entries the linear scan of FindRankIndexEntry reads: every entry from
\* begin to the one it stops at, except end.
LinearScanReads(self, begin, end, bit_index, ub) ==
  {e \in begin .. LinearScan(self, begin, end, bit_index, ub) : e # end}

\* The entries std::upper_bound compares with.
RECURSIVE UpperBoundReads(_, _, _, _, _)
UpperBoundReads(self, first, len, bit_index, ub) ==
  IF len <= 0 THEN {}
  ELSE LET half == len \div 2
           mid == first + half
       IN {mid} \cup
          IF bit_index < absolute_ones_count(RankAt(self, mid, ub))
          THEN UpperBoundReads(self, first, half, bit_index, ub)
          ELSE UpperBoundReads(self, mid + 1, len - half - 1, bit_index, ub)

\* FindRankIndexEntry (lines 360-410).  The reads of the DFST_CHECKs are made
\* when the checks are compiled in (ndebug is FALSE), up to the first check
\* that fails.
FindRankIndexEntryReads(self, bit_index, ndbg, ub) ==
  LET noindex == self.select_1_index_ = << >>
      select_index == ToUint32(bit_index \div kBitsPerSelect1Block)
      Of(found) ==
        LET entry == found.index + 1
            search ==
              IF found.end - found.begin <= kMaxLinearSearchBlocks
              THEN LinearScanReads(self, found.begin, found.end, bit_index, ub)
              ELSE UpperBoundReads(self, found.begin, found.end - found.begin,
                                   bit_index, ub)
            narrowing == IF noindex THEN {} ELSE {select_index, select_index + 1}
            entered ==
              /\ bit_index < GetOnesCount(self, ub)
              /\ noindex \/ select_index + 1 < Len(self.select_1_index_)
        IN IF ndbg THEN Reads({}, search, {}, narrowing)
           ELSE IF ~entered THEN GetOnesCountReads(self)
           ELSE Reads({},
                      {Len(self.rank_index_) - 1, entry - 1} \cup search \cup
                        IF absolute_ones_count(RankAt(self, entry - 1, ub)) <= bit_index
                        THEN {entry} ELSE {},
                      {}, narrowing)
  IN Of(FindRankIndexEntry(self, bit_index, ub))

\* Select1 (lines 58-101): GetOnesCount, the block search, the entry
\* returned and bits_[word_index].
Select1Reads(self, buf, bit_index, ndbg, ub) ==
  IF bit_index >= GetOnesCount(self, ub) THEN GetOnesCountReads(self)
  ELSE
    LET Of(r) ==
          IF ndbg \/ r.dchk
          THEN Reads({r.word_index}, {r.block}, {}, {})
          ELSE NoReads
    IN JoinReads(GetOnesCountReads(self),
                 JoinReads(FindRankIndexEntryReads(self, bit_index, ndbg, ub),
                           Of(Select1Call(self, buf, bit_index, ub))))

\* The entries the loop of FindInvertedRankIndexEntry reads.
RECURSIVE InvertedBisectReads(_, _, _, _, _)
InvertedBisectReads(self, lo, hi, bit_index, ub) ==
  IF ~(lo + 1 < hi) THEN {}
  ELSE LET mid == ToUint32(lo + (hi - lo) \div 2)
       IN {mid} \cup
          IF bit_index < ToUint32(kBitsPerRankIndexEntry * mid
                                  - absolute_ones_count(RankAt(self, mid, ub)))
          THEN InvertedBisectReads(self, lo, mid, bit_index, ub)
          ELSE InvertedBisectReads(self, mid, hi, bit_index, ub)

\* FindInvertedRankIndexEntry (lines 412-457), with the reads of the
\* DFST_CHECKs up to the first check that fails.
FindInvertedRankIndexEntryReads(self, bit_index, ndbg, ub) ==
  LET noindex == self.select_0_index_ = << >>
      select_index == ToUint32(bit_index \div kBitsPerSelect0Block)
      Of(found) ==
        LET lo == found.index
            search == InvertedBisectReads(self, found.first, found.hi, bit_index, ub)
            narrowing == IF noindex THEN {} ELSE {select_index, select_index + 1}
            entered ==
              /\ bit_index < self.num_bits_ - GetOnesCount(self, ub)
              /\ noindex \/ select_index + 1 < Len(self.select_0_index_)
        IN IF ndbg THEN Reads({}, search, narrowing, {})
           ELSE IF ~entered THEN GetOnesCountReads(self)
           ELSE IF ~(found.hi < Len(self.rank_index_))
           THEN Reads({}, {Len(self.rank_index_) - 1}, narrowing, {})
           ELSE Reads({},
                      {Len(self.rank_index_) - 1, lo} \cup search \cup
                        IF ToUint32(lo * kBitsPerRankIndexEntry
                                    - absolute_ones_count(RankAt(self, lo, ub)))
                             <= bit_index
                        THEN {lo + 1} ELSE {},
                      narrowing, {})
  IN Of(FindInvertedRankIndexEntry(self, bit_index, ub))

\* Select0 (lines 103-148).
Select0Reads(self, buf, bit_index, ndbg, ub) ==
  IF Select0Exhausted(self, bit_index, ub) THEN GetOnesCountReads(self)
  ELSE
    LET Of(r) ==
          IF ndbg \/ r.dchk
          THEN Reads({r.word_index}, {r.block}, {}, {})
          ELSE NoReads
    IN JoinReads(GetOnesCountReads(self),
                 JoinReads(FindInvertedRankIndexEntryReads(self, bit_index, ndbg, ub),
                           Of(Select0Call(self, buf, bit_index, ub))))

\* Select0s (lines 150-222): as Select0, and Select0(bit_index + 1) when the
\* next zero is not in the same word.
Select0sReads(self, buf, bit_index, ndbg, ub) ==
  IF Select0Exhausted(self, bit_index, ub) THEN GetOnesCountReads(self)
  ELSE IF Select0Exhausted(self, bit_index + 1, ub)
  THEN Select0Reads(self, buf, bit_index, ndbg, ub)
  ELSE
    LET found == FindInvertedRankIndexEntry(self, bit_index, ub)
        Of(r) ==
          IF ~(ndbg \/ found.dchk) THEN NoReads
          ELSE JoinReads(Reads({r.word_index}, {r.block}, {}, {}),
                         IF r.masked_inv_word # 0 THEN NoReads
                         ELSE Select0Reads(self, buf, bit_index + 1, ndbg, ub))
    IN JoinReads(GetOnesCountReads(self),
                 JoinReads(FindInvertedRankIndexEntryReads(self, bit_index, ndbg, ub),
                           Of(Select0sCall(self, buf, bit_index, ub))))

\* BuildIndex (lines 256-269, 277-295, 346): the words loaded into word[8]
\* of every block, the entry of every block and rank_index_.back().
BuildIndexReads(num_bits) ==
  LET starts == {w \in 0 .. (StorageSize(num_bits) - 1) :
                   w % kUnitsPerRankIndexEntry = 0}
  IN Reads(UNION {{w + i : i \in {j \in 0 .. 7 :
                                       j = 0 \/ w + j < StorageSize(num_bits)}} :
                    w \in starts},
           {w \div kUnitsPerRankIndexEntry : w \in starts}
             \cup {rank_index_size(num_bits) - 1},
           {}, {})

\* Every read is of a word below ArraySize and of an element of its array.
ReadsInBounds(self, r) ==
  /\ r.bits \subseteq 0 .. (ArraySize(self) - 1)
  /\ r.rank_index_ \subseteq 0 .. (Len(self.rank_index_) - 1)
  /\ r.select_0_index_ \subseteq 0 .. (Len(self.select_0_index_) - 1)
  /\ r.select_1_index_ \subseteq 0 .. (Len(self.select_1_index_) - 1)

\* The reads of the operation of the current state.
ReadsOfCall(ub) ==
  CASE call.op = "BuildIndex" -> BuildIndexReads(call.arg)
    [] call.op = "Get" -> GetReads(call.arg)
    [] call.op = "GetOnesCount" -> GetOnesCountReads(Self)
    [] call.op \in {"Rank1", "Rank0"} -> Rank1Reads(Self, call.arg)
    [] call.op = "Select1" -> Select1Reads(Self, Vector, call.arg, ndebug, ub)
    [] call.op = "Select0" -> Select0Reads(Self, Vector, call.arg, ndebug, ub)
    [] call.op = "Select0s" -> Select0sReads(Self, Vector, call.arg, ndebug, ub)
    [] OTHER -> NoReads

\* C28: on a vector within the contract (a length below 2^32, zero padding,
\* arguments in range) BuildIndex and every query read only words bits[w]
\* with w < ArraySize and only elements of rank_index_, select_0_index_ and
\* select_1_index_ inside those arrays.
C28_ReadsInBounds ==
  (PaddingIsZero /\ num_bits_ < kUint32Mod /\ call.op # "none") =>
    \A ub \in Unspecified : ReadsInBounds(Self, ReadsOfCall(ub))

\* The same for lengths at least one select block below 2^32 and for
\* indexes without select tables.
ReadsInBoundsBelowLimit ==
  (~NearLimit \/ (select_0_index_ = << >> /\ select_1_index_ = << >>))
    => C28_ReadsInBounds

\* Rank1(num_bits) reads no word, and BuildIndex of an empty vector reads
\* no word.
ReadsOfEdgeCases ==
  /\ (call.op = "Rank1" /\ call.arg = num_bits_) => Rank1Reads(Self, call.arg).bits = {}
  /\ (call.op = "BuildIndex" /\ call.arg = 0) => BuildIndexReads(call.arg).bits = {}

\* ---------------------------------------------------------------------------
\* C29: the 32-bit computations that narrow a select query
\* ---------------------------------------------------------------------------

\* (select_index[s + 1] + kBitsPerSelectBlock - 1) / kBitsPerSelectBlock as
\* the code computes it, in uint32 (lines 385-386 and 428-429).
UpperBlockBound(position) ==
  ToUint32(position + kBitsPerSelect1Block - 1) \div kBitsPerSelect1Block

\* The number of blocks that end at or before the position, rounded up.
CeilBlocks(position) == (position + kBitsPerSelect1Block - 1) \div kBitsPerSelect1Block

\* (lo + 1) * kBitsPerRankIndexEntry of the bracket check, in uint32 (line 449).
BracketLimit(lo) == ToUint32((lo + 1) * kBitsPerRankIndexEntry)

\* C29: for every length below 2^32 the upper block bound computed from
\* every entry a select query can use as select_index[s + 1], the terminator
\* included, is the rounded-up block count, the limit of the bracket check
\* of every block is 512 * (lo + 1), and Select1 and Select0 return with the
\* select tables what they return without them.
C29_NarrowingDoesNotWrap ==
  (call.op = "BuildIndex" /\ PaddingIsZero /\ num_bits_ < kUint32Mod) =>
    /\ \A i \in 2 .. Len(select_1_index_) :
         UpperBlockBound(select_1_index_[i]) = CeilBlocks(select_1_index_[i])
    /\ \A i \in 2 .. Len(select_0_index_) :
         UpperBlockBound(select_0_index_[i]) = CeilBlocks(select_0_index_[i])
    /\ \A lo \in 0 .. (Len(rank_index_) - 2) :
         BracketLimit(lo) = (lo + 1) * kBitsPerRankIndexEntry
    /\ \A ub \in Unspecified :
         \A plain \in {BuildIndex(Self, bits_, Vector, num_bits_, FALSE, FALSE, ub)} :
           \A k \in 0 .. (num_bits_ + 1) :
             /\ Select1(Self, Vector, k, ub) = Select1(plain, Vector, k, ub)
             /\ Select0(Self, Vector, k, ub) = Select0(plain, Vector, k, ub)

\* The same for lengths at least one select block below 2^32.
NarrowingDoesNotWrapBelowLimit == ~NearLimit => C29_NarrowingDoesNotWrap

\* Near 2^32 the bound computed from the terminator is 0.
TerminatorBoundWraps ==
  (call.op = "BuildIndex" /\ num_bits_ < kUint32Mod /\ select_1_index_ # << >>
     /\ num_bits_ + kBitsPerSelect1Block - 1 >= kUint32Mod)
    => UpperBlockBound(select_1_index_[Len(select_1_index_)]) = 0

\* ---------------------------------------------------------------------------
\* C30: the linear scan and the bisection of FindRankIndexEntry
\* ---------------------------------------------------------------------------

\* Values of the threshold kMaxLinearSearchBlocks: from scanning the empty
\* range only, over the model's value, to the source's value 8, under which
\* every range of the model is scanned.
LinearSearchThresholds == {0, 1, kMaxLinearSearchBlocks, 3, 8}

\* C30: on a built index, for every k below the number of set bits and
\* every range [begin, end) of rank_index_, the linear scan and the
\* upper-bound bisection return the same entry; and on the range
\* FindRankIndexEntry(k) searches, the entry found is the same for every
\* value of the threshold, so the result of Select1 does not depend on it.
C30_ScanEqualsBisection ==
  (call.op = "BuildIndex" /\ num_bits_ < kUint32Mod) =>
    \A ub \in Unspecified :
      \A k \in 0 .. (GetOnesCount(Self, ub) - 1) :
        /\ \A begin \in 0 .. Len(rank_index_) :
             \A end \in begin .. Len(rank_index_) :
               LinearScan(Self, begin, end, k, ub)
                 = UpperBound(Self, begin, end - begin, k, ub)
        /\ \A found \in {FindRankIndexEntry(Self, k, ub)} :
             \A t \in LinearSearchThresholds :
               SearchRange(Self, found.begin, found.end, k, t, ub) = found.index + 1

\* An index without select-1 table whose range is searched by bisection
\* under the model's threshold and by the linear scan under the source's,
\* with a block whose absolute count is exactly k.
C30_Witness ==
  /\ call.op = "BuildIndex" /\ num_bits_ < kUint32Mod
  /\ select_1_index_ = << >>
  /\ Len(rank_index_) > kMaxLinearSearchBlocks /\ Len(rank_index_) <= 8
  /\ \E k \in 1 .. (absolute_ones_count(rank_index_[Len(rank_index_)]) - 1) :
       \E b \in 1 .. (Len(rank_index_) - 1) :
         /\ absolute_ones_count(rank_index_[b]) = k
         /\ absolute_ones_count(rank_index_[b + 1]) > k

====
